---- MODULE Spec2Model ----
(***************************************************************************)
(* Model of the phonebook SMS booking assistant: the conversation engine   *)
(* (services/conversation.rs), the scheduling validator                    *)
(* (services/scheduling.rs), the availability model                        *)
(* (models/availability.rs) and the storage queries they use               *)
(* (db/queries.rs).                                                        *)
(*                                                                         *)
(* Conventions.                                                            *)
(*   Option<T>      : <<>> is None, <<x>> is Some(x).                      *)
(*   NaiveDateTime  : minutes since 2025-06-16 00:00 (a Monday).           *)
(*   "HH:MM" strings: sequences of character codes, digits 0..9 and 10 for *)
(*                    ':' (the ASCII order of these characters), compared  *)
(*                    lexicographically as Rust compares &str / String.    *)
(*   date/time text : the LLM's requested_date / requested_time and the    *)
(*                    pending date_time are free text; they are sequences  *)
(*                    of words, a word being a date "YYYY-MM-DD", a time   *)
(*                    "HH:MM" or some other word.  format!("{d} {t}") is   *)
(*                    concatenation of the word sequences.                 *)
(***************************************************************************)
EXTENDS Integers, Sequences, FiniteSets, TLC

VARIABLES
    bookings,      \* table bookings: sequence of rows, row i has id i
    convs,         \* table conversations: phone -> Option<row>
    availability,  \* users.availability of user "default", Option<Availability>
    now,           \* Utc::now(), in minutes
    gate,          \* what the webhook consults before the engine: the tables
                   \* blocked_numbers and rate_limits and AppState::paused
    turns,         \* process_message calls in flight (concurrent specification)
    last           \* record of the last completed operation (history variable)

vars == <<bookings, convs, availability, now, gate, turns, last>>

None == <<>>
Some(x) == <<x>>
IsSome(o) == o # <<>>
Unwrap(o) == o[1]
UnwrapOr(o, d) == IF o = <<>> THEN d ELSE o[1]
\* Option::or
OrElse(a, b) == IF a # <<>> THEN a ELSE b

(***************************************************************************)
(* Time.                                                                   *)
(***************************************************************************)
MinutesPerDay == 1440

DayOf(ts) == ts \div MinutesPerDay
MinuteOf(ts) == ts % MinutesPerDay
At(day, h, m) == day * MinutesPerDay + h * 60 + m

\* dt.format("%H:%M")
FormatHM(ts) ==
    LET h == MinuteOf(ts) \div 60
        m == MinuteOf(ts) % 60
    IN  <<h \div 10, h % 10, 10, m \div 10, m % 10>>

\* a canonical "HH:MM" literal
HM(h, m) == FormatHM(h * 60 + m)

\* Rust's lexicographic order on strings
RECURSIVE StrLt(_, _)
StrLt(a, b) ==
    IF b = <<>> THEN FALSE
    ELSE IF a = <<>> THEN TRUE
    ELSE IF Head(a) < Head(b) THEN TRUE
    ELSE IF Head(a) > Head(b) THEN FALSE
    ELSE StrLt(Tail(a), Tail(b))

StrLe(a, b) == a = b \/ StrLt(a, b)
StrGe(a, b) == ~StrLt(a, b)
StrGt(a, b) == StrLt(b, a)

DAY_ORDER == <<"mon", "tue", "wed", "thu", "fri", "sat", "sun">>

\* dt.format("%a").to_lowercase(); day 0 is Monday 2025-06-16
WeekdayOf(ts) == DAY_ORDER[(DayOf(ts) % 7) + 1]

\* str::to_lowercase on the day names a stored Availability may carry
to_lowercase(day) ==
    CASE day = "Mon" -> "mon" [] day = "Tue" -> "tue" [] day = "Wed" -> "wed"
      [] day = "Thu" -> "thu" [] day = "Fri" -> "fri" [] day = "Sat" -> "sat"
      [] day = "Sun" -> "sun" [] OTHER -> day

\* the position of the lowercased name in DAY_ORDER
DayPosition(lower) ==
    IF \E i \in 1..7 : DAY_ORDER[i] = lower
    THEN Some(CHOOSE i \in 1..7 : DAY_ORDER[i] = lower)
    ELSE None

day_index(day) == DayPosition(to_lowercase(day))

(***************************************************************************)
(* Availability (models/availability.rs).                                  *)
(*   slots     : sequence of [day, start, end]                             *)
(*   overrides : set of [date, available, start, end], date a day number,  *)
(*               start/end Option<"HH:MM">, one entry per date             *)
(*   day_from, day_to, time_from, time_to : Option                         *)
(*   breaks    : sequence of [start, end]                                  *)
(***************************************************************************)
Slot(d, s, e) == [day |-> d, start |-> s, end |-> e]

MkAvail(slots, overrides, df, dt, tf, tt, breaks) ==
    [slots |-> slots, overrides |-> overrides, day_from |-> df, day_to |-> dt,
     time_from |-> tf, time_to |-> tt, breaks |-> breaks]

RECURSIVE DayRun(_, _)
\* DAY_ORDER[fi..=ti] as a sequence of day names
DayRun(fi, ti) == IF fi > ti THEN <<>> ELSE <<DAY_ORDER[fi]>> \o DayRun(fi + 1, ti)

\* one slot per day of the run, each with the rule's hours
ExpandDays(days, time_from, time_to) ==
    [i \in 1..Len(days) |-> Slot(days[i], time_from, time_to)]

\* a run that does not wrap after Sunday
CyclicRunMutantNoWrap(fi, ti) == DayRun(fi, ti)

\* the days from index fi through index ti, wrapping after Sunday
CyclicRun(fi, ti) ==
    IF fi <= ti THEN DayRun(fi, ti) ELSE DayRun(fi, 7) \o DayRun(1, ti)

effective_slots(a) ==
    IF IsSome(a.day_from) /\ IsSome(a.day_to) /\ IsSome(a.time_from) /\ IsSome(a.time_to)
       /\ IsSome(day_index(Unwrap(a.day_from))) /\ IsSome(day_index(Unwrap(a.day_to)))
    THEN ExpandDays(CyclicRun(Unwrap(day_index(Unwrap(a.day_from))),
                              Unwrap(day_index(Unwrap(a.day_to)))),
                    Unwrap(a.time_from), Unwrap(a.time_to))
    ELSE a.slots

is_during_break(a, time) ==
    \E i \in 1..Len(a.breaks) :
        StrGe(time, a.breaks[i].start) /\ StrLt(time, a.breaks[i].end)

overlaps_break(a, start, end) ==
    \E i \in 1..Len(a.breaks) :
        StrLt(start, a.breaks[i].end) /\ StrGt(end, a.breaks[i].start)

\* self.overrides.get(&date_key)
OverrideFor(a, ts) ==
    IF \E o \in a.overrides : o.date = DayOf(ts)
    THEN Some(CHOOSE o \in a.overrides : o.date = DayOf(ts))
    ELSE None

\* an override that blocks the date
Blocks(ovr) == IsSome(ovr) /\ ~Unwrap(ovr).available

\* an override that carries both a start and an end
HasHours(ovr) == IsSome(ovr) /\ IsSome(Unwrap(ovr).start) /\ IsSome(Unwrap(ovr).end)

\* slots.iter().any(...) of is_available
StartInSlot(slots, weekday, time) ==
    \E i \in 1..Len(slots) :
        /\ to_lowercase(slots[i].day) = weekday
        /\ StrGe(time, slots[i].start)
        /\ StrLt(time, slots[i].end)

\* slots.iter().any(...) of end_time_within_slot
SpanInSlot(slots, weekday, start_time, end_time) ==
    \E i \in 1..Len(slots) :
        /\ to_lowercase(slots[i].day) = weekday
        /\ StrGe(start_time, slots[i].start)
        /\ StrLe(end_time, slots[i].end)

\* is_available with the override of the date and the formatted time at hand
IsAvailableAt(a, ovr, weekday, time) ==
    IF Blocks(ovr) THEN FALSE
    ELSE IF HasHours(ovr)
    THEN /\ StrGe(time, Unwrap(Unwrap(ovr).start))
         /\ StrLt(time, Unwrap(Unwrap(ovr).end))
         /\ ~is_during_break(a, time)
    ELSE StartInSlot(effective_slots(a), weekday, time) /\ ~is_during_break(a, time)

is_available(a, ts) == IsAvailableAt(a, OverrideFor(a, ts), WeekdayOf(ts), FormatHM(ts))

\* end_time_within_slot with the override and the formatted times at hand
EndWithinAt(a, ovr, weekday, start_time, end_time) ==
    IF Blocks(ovr) THEN FALSE
    ELSE IF HasHours(ovr)
    THEN /\ StrGe(start_time, Unwrap(Unwrap(ovr).start))
         /\ StrLe(end_time, Unwrap(Unwrap(ovr).end))
         /\ ~overlaps_break(a, start_time, end_time)
    ELSE /\ SpanInSlot(effective_slots(a), weekday, start_time, end_time)
         /\ ~overlaps_break(a, start_time, end_time)

end_time_within_slot(a, ts, duration_minutes) ==
    EndWithinAt(a, OverrideFor(a, ts), WeekdayOf(ts), FormatHM(ts),
                FormatHM(ts + duration_minutes))

\* position of a slot's day in DAY_ORDER, 7 (0-based) when absent
DayRank(day) == IF IsSome(day_index(day)) THEN Unwrap(day_index(day)) ELSE 8

RECURSIVE InsertByDay(_, _)
\* stable insertion of slot s into a sequence sorted by DayRank
InsertByDay(s, sorted) ==
    IF sorted = <<>> THEN <<s>>
    ELSE IF DayRank(s.day) < DayRank(Head(sorted).day) THEN <<s>> \o sorted
    ELSE <<Head(sorted)>> \o InsertByDay(s, Tail(sorted))

RECURSIVE SortByDay(_)
\* slots.sort_by(day index): a stable sort
SortByDay(slots) ==
    IF slots = <<>> THEN <<>>
    ELSE InsertByDay(slots[Len(slots)], SortByDay(SubSeq(slots, 1, Len(slots) - 1)))

\* first letter upper case, the rest lower case
capitalize(day) ==
    CASE day = "mon" -> "Mon" [] day = "tue" -> "Tue" [] day = "wed" -> "Wed"
      [] day = "thu" -> "Thu" [] day = "fri" -> "Fri" [] day = "sat" -> "Sat"
      [] day = "sun" -> "Sun" [] OTHER -> day

\* format!("{day}: {}-{}", s.start, s.end): the text as its three parts
HoursEntry(s) == <<capitalize(s.day), s.start, s.end>>

\* .map(..).collect::<Vec<_>>().join(", "): the text as the sequence of its
\* comma-separated entries
JoinEntries(sorted_slots) == [i \in 1..Len(sorted_slots) |-> HoursEntry(sorted_slots[i])]

\* "Mon: 09:00-17:00, Wed: ..."
to_human_readable(a) == JoinEntries(SortByDay(effective_slots(a)))

(***************************************************************************)
(* Storage (db/queries.rs).  A bookings row is                             *)
(*   [id, customer_phone, customer_name, date_time, duration_minutes,      *)
(*    status, notes]                                                       *)
(* created_at / updated_at are written but never read by the engine or the *)
(* validator and are left out.  A conversations row is                     *)
(*   [messages, state, pending_booking, last_activity, expires_at]         *)
(* keyed by phone.                                                         *)
(***************************************************************************)
RECURSIVE InsertByTime(_, _)
InsertByTime(b, sorted) ==
    IF sorted = <<>> THEN <<b>>
    ELSE IF b.date_time < Head(sorted).date_time THEN <<b>> \o sorted
    ELSE <<Head(sorted)>> \o InsertByTime(b, Tail(sorted))

RECURSIVE OrderByDateTime(_)
\* ORDER BY date_time ASC; rows with equal date_time stay in insertion order
OrderByDateTime(rows) ==
    IF rows = <<>> THEN <<>>
    ELSE InsertByTime(rows[Len(rows)], OrderByDateTime(SubSeq(rows, 1, Len(rows) - 1)))

\* the query without its ORDER BY: the rows in insertion order
get_bookings_for_phoneMutantUnordered(bks, phone) ==
    LET Test(b) == b.customer_phone = phone /\ b.status # "cancelled"
    IN  SelectSeq(bks, Test)

\* WHERE customer_phone = ?1 AND status != 'cancelled' ORDER BY date_time ASC
get_bookings_for_phone(bks, phone) ==
    LET Test(b) == b.customer_phone = phone /\ b.status # "cancelled"
    IN  OrderByDateTime(SelectSeq(bks, Test))

\* WHERE date_time >= ?1 AND date_time <= ?2 AND status != 'cancelled'
get_bookings_in_range(bks, start, end) ==
    LET Test(b) == b.date_time >= start /\ b.date_time <= end /\ b.status # "cancelled"
    IN  OrderByDateTime(SelectSeq(bks, Test))

\* an update that writes Confirmed back over a row that is already Cancelled
update_booking_statusMutantRevives(bks, id, status) ==
    [i \in 1..Len(bks) |-> IF bks[i].id = id
                           THEN [bks[i] EXCEPT !.status = IF @ = "cancelled" THEN "confirmed"
                                                          ELSE status]
                           ELSE bks[i]]

\* UPDATE bookings SET status = ?1 WHERE id = ?3
update_booking_status(bks, id, status) ==
    [i \in 1..Len(bks) |-> IF bks[i].id = id THEN [bks[i] EXCEPT !.status = status]
                           ELSE bks[i]]

\* INSERT INTO bookings
create_booking(bks, b) == Append(bks, b)

\* a lookup without the expires_at condition
get_conversationMutantIgnoresExpiry(cs, phone, now_) == cs[phone]

\* SELECT ... WHERE phone = ?1 AND expires_at > now
get_conversation(cs, phone, now_) ==
    IF IsSome(cs[phone]) /\ Unwrap(cs[phone]).expires_at > now_
    THEN cs[phone] ELSE None

\* INSERT ... ON CONFLICT(phone) DO UPDATE
save_conversation(cs, phone, conv) == [cs EXCEPT ![phone] = Some(conv)]

(***************************************************************************)
(* Scheduling validator (services/scheduling.rs).                          *)
(***************************************************************************)
EndOf(b) == b.date_time + b.duration_minutes

\* a validator that never reports a conflict
HasConflictMutantNoCheck(rows, dt, duration_minutes) == FALSE

\* the conflict loop of validate_booking_time over the rows the query returned

HasConflict(rows, dt, duration_minutes) ==
    \E i \in 1..Len(rows) :
        rows[i].date_time < dt + duration_minutes /\ EndOf(rows[i]) > dt

\* an hours check that does not skip an Availability without effective slots
OutsideHoursMutantNoEmptyCheck(dt, duration_minutes, avail) ==
    /\ IsSome(avail)
    /\ \/ ~is_available(Unwrap(avail), dt)
       \/ ~end_time_within_slot(Unwrap(avail), dt, duration_minutes)

\* the business-hours part of validate_booking_time
OutsideHours(dt, duration_minutes, avail) ==
    /\ IsSome(avail)
    /\ effective_slots(Unwrap(avail)) # <<>>
    /\ \/ ~is_available(Unwrap(avail), dt)
       \/ ~end_time_within_slot(Unwrap(avail), dt, duration_minutes)

\* a validator that looks for conflicts before it looks at the hours
validate_booking_timeMutantConflictFirst(bks, dt, duration_minutes, avail) ==
    IF HasConflict(get_bookings_in_range(bks, DayOf(dt) * MinutesPerDay,
                       DayOf(dt) * MinutesPerDay + (MinutesPerDay - 1)),
                   dt, duration_minutes)
    THEN "Conflict"
    ELSE IF OutsideHours(dt, duration_minutes, avail) THEN "OutsideBusinessHours"
    ELSE "Ok"

validate_booking_time(bks, dt, duration_minutes, avail) ==
    IF OutsideHours(dt, duration_minutes, avail) THEN "OutsideBusinessHours"
    ELSE IF HasConflict(get_bookings_in_range(bks, DayOf(dt) * MinutesPerDay,
                            DayOf(dt) * MinutesPerDay + (MinutesPerDay - 1)),
                        dt, duration_minutes)
    THEN "Conflict"
    ELSE "Ok"

(***************************************************************************)
(* Reply texts.  A reply is [kind, hours, id]:                             *)
(*   "llm"         extracted.message_to_customer                           *)
(*   "llm_ics"     message_to_customer + "\n\nAdd to calendar:             *)
(*                 /calendar/<id>.ics"                                     *)
(*   "hours"       "That time is outside our business hours. We're         *)
(*                 available: <hours>"                                     *)
(*   "conflict"    "Sorry, that time slot is already booked. Could you     *)
(*                 pick a different time?"                                 *)
(*   "no_upcoming" "I don't see any upcoming bookings to cancel. ..."      *)
(*   "wrong"       "I'm sorry, something went wrong. Could you start over?"*)
(***************************************************************************)
Reply(kind, hours, id) == [kind |-> kind, hours |-> hours, id |-> id]
LlmReply == Reply("llm", <<>>, 0)

\* SchedulingError::to_string
ErrorText(err, avail) ==
    IF err = "OutsideBusinessHours"
    THEN Reply("hours", to_human_readable(Unwrap(avail)), 0)
    ELSE Reply("conflict", <<>>, 0)

(***************************************************************************)
(* Date/time text.                                                         *)
(***************************************************************************)
DateWord(day) == [k |-> "date", v |-> day]
TimeWord(minute) == [k |-> "time", v |-> minute]
OtherWord == [k |-> "other", v |-> 0]

make_datetime_string(date, time) ==
    IF IsSome(date) /\ IsSome(time) THEN Some(Unwrap(date) \o Unwrap(time))
    ELSE IF IsSome(date) THEN date
    ELSE IF IsSome(time) THEN time
    ELSE None

\* NaiveDateTime::parse_from_str(dt, "%Y-%m-%d %H:%M") or with ":%S": the text
\* must be exactly a date followed by a time
ParseDateTime(text) ==
    IF Len(text) = 2 /\ text[1].k = "date" /\ text[2].k = "time"
    THEN Some(text[1].v * MinutesPerDay + text[2].v)
    ELSE None

\* what try_validate_time met: text that does not parse, or the validator's
\* verdict
ValidationOutcome(bks, dt_str, duration_minutes, avail) ==
    IF ParseDateTime(dt_str) = None THEN "Unparsed"
    ELSE validate_booking_time(bks, Unwrap(ParseDateTime(dt_str)), duration_minutes, avail)

\* try_validate_time when get_bookings_in_range returns Err: the hours check
\* has run before the query, and .map_err(|_| SchedulingError::Conflict)?
\* turns the storage error into a conflict
ValidationOutcomeQueryFails(dt_str, duration_minutes, avail) ==
    IF ParseDateTime(dt_str) = None THEN "Unparsed"
    ELSE IF OutsideHours(Unwrap(ParseDateTime(dt_str)), duration_minutes, avail)
    THEN "OutsideBusinessHours"
    ELSE "Conflict"

Rejections == {"OutsideBusinessHours", "Conflict"}

\* try_validate_time: None when the text does not parse or the validator
\* accepts, Some(rejection text) otherwise
try_validate_time(bks, dt_str, duration_minutes, avail) ==
    IF ValidationOutcome(bks, dt_str, duration_minutes, avail) \in Rejections
    THEN Some(ErrorText(ValidationOutcome(bks, dt_str, duration_minutes, avail), avail))
    ELSE None

(***************************************************************************)
(* Conversation engine (services/conversation.rs).                         *)
(*                                                                         *)
(* A process_message call is a context record that moves through its lock  *)
(* acquisitions; each Step* operator is the code between two releases of   *)
(* the database lock, as a function of the tables it sees.                 *)
(*   phone, conv, avail, ex : the call's locals                            *)
(*   pc      : the next step                                               *)
(*   reply   : the reply chosen by the state machine                       *)
(*   nb      : next_booking of the Reschedule arm                          *)
(*   prev, v, created, cancelled, seen : history of the call (the loaded   *)
(*             state and pending booking, the validator's outcome, the ids *)
(*             of the row inserted / cancelled, and how many bookings rows *)
(*             existed when the validator ran)                             *)
(***************************************************************************)
ExpiryMinutes == 30
DefaultDuration == 60

Message(role, content) == [role |-> role, content |-> content]
UserText == Reply("text", <<>>, 0)

Pending(name, date_time, duration_minutes, notes) ==
    [customer_name |-> name, date_time |-> date_time,
     duration_minutes |-> duration_minutes, notes |-> notes]

new_conversation(now_) ==
    [messages |-> <<>>, state |-> "Idle", pending_booking |-> None,
     last_activity |-> now_, expires_at |-> now_ + ExpiryMinutes]

NoEx == [intent |-> "Unknown", customer_name |-> None, requested_date |-> None,
         requested_time |-> None, duration_minutes |-> None, notes |-> None]

\* the call before its first statement
NewCall(phone) ==
    [phone |-> phone, pc |-> "load_conv", conv |-> new_conversation(0),
     avail |-> None, ex |-> NoEx, reply |-> LlmReply, nb |-> None,
     prev |-> [state |-> "Idle", pending_booking |-> None],
     v |-> "NotRun", created |-> 0, cancelled |-> 0, seen |-> 0,
     fault |-> "none", stale |-> "none"]

\* lines 21-25: get_conversation or new_conversation
Loaded(c, conv) ==
    [c EXCEPT !.conv = conv,
              !.prev = [state |-> conv.state, pending_booking |-> conv.pending_booking],
              !.pc = "load_user"]

\* stale: the state of a stored row that the lookup did not return ("none" when
\* the row was returned or the phone has no row)
StepLoadConv(c, cs, now_) ==
    [Loaded(c, UnwrapOr(get_conversation(cs, c.phone, now_), new_conversation(now_)))
        EXCEPT !.stale = IF IsSome(cs[c.phone]) /\ get_conversation(cs, c.phone, now_) = None
                         THEN Unwrap(cs[c.phone]).state ELSE "none"]

\* lines 28-47: get_user, Availability::from_json, push of the user message
StepLoadUser(c, avail) ==
    [c EXCEPT !.avail = avail,
              !.conv.messages = Append(@, Message("user", UserText)),
              !.pc = "llm"]

\* lines 72-79: extract_intent returned ex
StepLlm(c, ex) == [c EXCEPT !.ex = ex, !.pc = "match"]

\* a match whose Decline arm is taken in every state
ArmMutantDeclineAnywhere(state, intent) ==
    IF intent = "Book" THEN "Book"
    ELSE IF intent = "Decline" THEN "Decline"
    ELSE IF state = "CollectingInfo" THEN "Collect"
    ELSE IF state = "Confirming" /\ intent = "Confirm" THEN "Confirm"
    ELSE IF intent = "Cancel" THEN "Cancel"
    ELSE IF intent = "Reschedule" THEN "Reschedule"
    ELSE "Pass"

\* a match without the (Confirming, Decline) arm
ArmMutantNoDecline(state, intent) ==
    IF intent = "Book" THEN "Book"
    ELSE IF state = "CollectingInfo" THEN "Collect"
    ELSE IF state = "Confirming" /\ intent = "Confirm" THEN "Confirm"
    ELSE IF intent = "Cancel" THEN "Cancel"
    ELSE IF intent = "Reschedule" THEN "Reschedule"
    ELSE "Pass"

\* the arm of match (&conv.state, &extracted.intent), arms tried in source order
Arm(state, intent) ==
    IF intent = "Book" THEN "Book"
    ELSE IF state = "CollectingInfo" THEN "Collect"
    ELSE IF state = "Confirming" /\ intent = "Confirm" THEN "Confirm"
    ELSE IF state = "Confirming" /\ intent = "Decline" THEN "Decline"
    ELSE IF intent = "Cancel" THEN "Cancel"
    ELSE IF intent = "Reschedule" THEN "Reschedule"
    ELSE "Pass"

\* try_validate_time on the pending booking of the call; when the call's
\* get_bookings_in_range fails the validator's query has no rows to give
OutcomeFor(c, bks) ==
    IF IsSome(Unwrap(c.conv.pending_booking).date_time)
    THEN IF c.fault = "get_bookings_in_range"
         THEN ValidationOutcomeQueryFails(
                  Unwrap(Unwrap(c.conv.pending_booking).date_time),
                  UnwrapOr(Unwrap(c.conv.pending_booking).duration_minutes,
                           DefaultDuration),
                  c.avail)
         ELSE ValidationOutcome(bks, Unwrap(Unwrap(c.conv.pending_booking).date_time),
                  UnwrapOr(Unwrap(c.conv.pending_booking).duration_minutes,
                           DefaultDuration),
                  c.avail)
    ELSE "NotRun"

\* a rejection answered with the LLM's message instead of the validator's text
RejectedMutantLlmReply(c, outcome, nrows) ==
    [c EXCEPT !.conv.state = "CollectingInfo",
              !.reply = LlmReply,
              !.v = outcome, !.seen = nrows, !.pc = "save"]

\* a rejection that also clears the pending booking
RejectedMutantDropsPending(c, outcome, nrows) ==
    [c EXCEPT !.conv.state = "CollectingInfo",
              !.conv.pending_booking = None,
              !.reply = ErrorText(outcome, c.avail),
              !.v = outcome, !.seen = nrows, !.pc = "save"]

\* a validation rejection: set the state, then finish_conversation(err)
Rejected(c, outcome, nrows) ==
    [c EXCEPT !.conv.state = "CollectingInfo",
              !.reply = ErrorText(outcome, c.avail),
              !.v = outcome, !.seen = nrows, !.pc = "save"]

\* no rejection: the arm goes on to ok_state and ok_pc
Accepted(c, outcome, nrows, ok_state, ok_pc) ==
    [c EXCEPT !.conv.state = ok_state, !.reply = LlmReply,
              !.v = outcome, !.seen = nrows, !.pc = ok_pc]

\* if let Some(validation_err) = try_validate_time(..) { .. return finish } ..
Validated(c, outcome, nrows, ok_state, ok_pc) ==
    IF outcome \in Rejections THEN Rejected(c, outcome, nrows)
    ELSE Accepted(c, outcome, nrows, ok_state, ok_pc)

has_enough_info(ex) ==
    IsSome(ex.customer_name) /\ IsSome(ex.requested_date) /\ IsSome(ex.requested_time)

\* lines 98-106 and 126-134: the pending booking of a Book turn
BookPending(ex) ==
    Pending(ex.customer_name,
            make_datetime_string(ex.requested_date, ex.requested_time),
            ex.duration_minutes, ex.notes)

WithPending(c, pending) == [c EXCEPT !.conv.pending_booking = pending]

\* lines 91-138
ArmBook(c, bks) ==
    IF has_enough_info(c.ex)
    THEN Validated(WithPending(c, Some(BookPending(c.ex))),
                   OutcomeFor(WithPending(c, Some(BookPending(c.ex))), bks),
                   Len(bks), "Confirming", "save")
    ELSE [WithPending(c, Some(BookPending(c.ex)))
             EXCEPT !.conv.state = "CollectingInfo", !.reply = LlmReply, !.pc = "save"]

\* lines 143-162: merge of the extracted fields into the pending booking
MergePending(p, ex) ==
    [customer_name |-> IF IsSome(ex.customer_name) THEN ex.customer_name
                       ELSE p.customer_name,
     date_time |-> IF IsSome(ex.requested_date) \/ IsSome(ex.requested_time)
                   THEN make_datetime_string(OrElse(ex.requested_date, p.date_time),
                                             ex.requested_time)
                   ELSE p.date_time,
     duration_minutes |-> IF IsSome(ex.duration_minutes) THEN ex.duration_minutes
                          ELSE p.duration_minutes,
     notes |-> IF IsSome(ex.notes) THEN ex.notes ELSE p.notes]

\* if let Some(ref mut pending) = conv.pending_booking { .. }
Merged(c) ==
    IF IsSome(c.conv.pending_booking)
    THEN WithPending(c, Some(MergePending(Unwrap(c.conv.pending_booking), c.ex)))
    ELSE c

\* lines 165-169
has_enough(c) ==
    /\ IsSome(c.conv.pending_booking)
    /\ IsSome(Unwrap(c.conv.pending_booking).customer_name)
    /\ IsSome(Unwrap(c.conv.pending_booking).date_time)

\* a decision that re-validates whenever the pending booking is complete
CollectDecideMutantEager(c, bks) ==
    IF has_enough(c)
    THEN Validated(c, OutcomeFor(c, bks), Len(bks), "Confirming", "save")
    ELSE [c EXCEPT !.reply = LlmReply, !.pc = "save"]

\* lines 164-195, on the call with the merged pending booking
CollectDecide(c, bks) ==
    IF has_enough(c) /\ (c.ex.intent = "Confirm" \/ IsSome(c.ex.requested_date)
                         \/ IsSome(c.ex.requested_time))
    THEN Validated(c, OutcomeFor(c, bks), Len(bks), "Confirming", "save")
    ELSE [c EXCEPT !.reply = LlmReply, !.pc = "save"]

\* lines 141-195
ArmCollect(c, bks) == CollectDecide(Merged(c), bks)

\* lines 198-207 and 244-247: the final validation of the Confirm arm
ArmConfirm(c, bks) ==
    IF c.conv.pending_booking = None
    THEN [c EXCEPT !.conv.state = "Idle", !.reply = Reply("wrong", <<>>, 0),
                   !.pc = "save"]
    ELSE Validated(c, OutcomeFor(c, bks), Len(bks), c.conv.state, "insert")

\* a booking stored as Pending and without the collected notes
create_booking_from_pending_MutantPending(phone, pending, id, now_) ==
    [id |-> id,
     customer_phone |-> phone,
     customer_name |-> pending.customer_name,
     date_time |-> IF IsSome(pending.date_time)
                   THEN UnwrapOr(ParseDateTime(Unwrap(pending.date_time)), now_)
                   ELSE now_,
     duration_minutes |-> UnwrapOr(pending.duration_minutes, DefaultDuration),
     status |-> "pending",
     notes |-> None]

\* lines 424-447; the id is a fresh uuid, modelled as the next row number
create_booking_from_pending(phone, pending, id, now_) ==
    [id |-> id,
     customer_phone |-> phone,
     customer_name |-> pending.customer_name,
     date_time |-> IF IsSome(pending.date_time)
                   THEN UnwrapOr(ParseDateTime(Unwrap(pending.date_time)), now_)
                   ELSE now_,
     duration_minutes |-> UnwrapOr(pending.duration_minutes, DefaultDuration),
     status |-> "confirmed",
     notes |-> pending.notes]

\* a Cancel arm that resets the state and leaves the pending booking in place
CancelFirstMutantKeepsPending(c, bks, rows) ==
    IF rows # <<>>
    THEN [ctx |-> [c EXCEPT !.conv.state = "Idle",
                            !.reply = LlmReply, !.cancelled = rows[1].id,
                            !.pc = "save"],
          bks |-> update_booking_status(bks, rows[1].id, "cancelled")]
    ELSE [ctx |-> [c EXCEPT !.conv.state = "Idle",
                            !.reply = Reply("no_upcoming", <<>>, 0), !.pc = "save"],
          bks |-> bks]

\* lines 261-290 with the rows get_bookings_for_phone returned
CancelFirst(c, bks, rows) ==
    IF rows # <<>>
    THEN [ctx |-> [c EXCEPT !.conv.state = "Idle", !.conv.pending_booking = None,
                            !.reply = LlmReply, !.cancelled = rows[1].id,
                            !.pc = "save"],
          bks |-> update_booking_status(bks, rows[1].id, "cancelled")]
    ELSE [ctx |-> [c EXCEPT !.conv.state = "Idle", !.conv.pending_booking = None,
                            !.reply = Reply("no_upcoming", <<>>, 0), !.pc = "save"],
          bks |-> bks]

\* lines 257-291: lookup and cancellation under one lock
ArmCancel(c, bks) == CancelFirst(c, bks, get_bookings_for_phone(bks, c.phone))

\* a Reschedule arm that parks the conversation in Rescheduling and keeps the
\* pending booking when the phone has no booking
RescheduleFirstMutantParks(c, rows) ==
    IF rows # <<>>
    THEN [c EXCEPT !.nb = Some(rows[1]), !.pc = "resched_cancel"]
    ELSE [c EXCEPT !.conv.state = "Rescheduling", !.reply = LlmReply, !.pc = "save"]

\* lines 300 and 340-343 with the rows get_bookings_for_phone returned
RescheduleFirst(c, rows) ==
    IF rows # <<>>
    THEN [c EXCEPT !.nb = Some(rows[1]), !.pc = "resched_cancel"]
    ELSE [c EXCEPT !.conv.state = "Idle", !.conv.pending_booking = None,
                   !.reply = LlmReply, !.pc = "save"]

\* lines 295-300 and 340-343: the lookup of the Reschedule arm
ArmReschedule(c, bks) == RescheduleFirst(c, get_bookings_for_phone(bks, c.phone))

\* lines 313-323: the pending booking seeded from the old booking
ReschedulePending(nb, ex) ==
    Pending(OrElse(nb.customer_name, ex.customer_name),
            make_datetime_string(ex.requested_date, ex.requested_time),
            OrElse(ex.duration_minutes, Some(nb.duration_minutes)),
            OrElse(ex.notes, nb.notes))

\* lines 301-327 and 337-339: cancel the old booking, seed the pending booking
StepReschedCancel(c, bks) ==
    [ctx |-> IF IsSome(c.ex.requested_date) /\ IsSome(c.ex.requested_time)
             THEN [c EXCEPT !.conv.pending_booking =
                                Some(ReschedulePending(Unwrap(c.nb), c.ex)),
                            !.cancelled = Unwrap(c.nb).id,
                            !.pc = "resched_validate"]
             ELSE [c EXCEPT !.conv.pending_booking =
                                Some(ReschedulePending(Unwrap(c.nb), c.ex)),
                            !.cancelled = Unwrap(c.nb).id,
                            !.conv.state = "CollectingInfo", !.reply = LlmReply,
                            !.pc = "save"],
     bks |-> update_booking_status(bks, Unwrap(c.nb).id, "cancelled")]

\* lines 328-336
StepReschedValidate(c, bks) ==
    Validated(c, OutcomeFor(c, bks), Len(bks), "Confirming", "save")

\* lines 89-356 up to the first release of the database lock
StepMatch(c, bks) ==
    CASE Arm(c.conv.state, c.ex.intent) = "Book" ->
             [ctx |-> ArmBook(c, bks), bks |-> bks]
      [] Arm(c.conv.state, c.ex.intent) = "Collect" ->
             [ctx |-> ArmCollect(c, bks), bks |-> bks]
      [] Arm(c.conv.state, c.ex.intent) = "Confirm" ->
             [ctx |-> ArmConfirm(c, bks), bks |-> bks]
      [] Arm(c.conv.state, c.ex.intent) = "Decline" ->
             [ctx |-> [c EXCEPT !.conv.state = "CollectingInfo",
                                !.reply = LlmReply, !.pc = "save"],
              bks |-> bks]
      [] Arm(c.conv.state, c.ex.intent) = "Cancel" -> ArmCancel(c, bks)
      [] Arm(c.conv.state, c.ex.intent) = "Reschedule" ->
             [ctx |-> ArmReschedule(c, bks), bks |-> bks]
      [] OTHER ->
             [ctx |-> [c EXCEPT !.reply = LlmReply, !.pc = "save"], bks |-> bks]

\* lines 220-243 with the booking create_booking_from_pending built
Inserted(c, bks, b) ==
    [ctx |-> [c EXCEPT !.conv.state = "Idle", !.conv.pending_booking = None,
                       !.reply = Reply("llm_ics", <<>>, b.id),
                       !.created = b.id, !.pc = "save"],
     bks |-> create_booking(bks, b)]

\* lines 209-243: create the booking, reset the conversation
StepInsert(c, bks, now_) ==
    Inserted(c, bks, create_booking_from_pending(c.phone, Unwrap(c.conv.pending_booking),
                                                 Len(bks) + 1, now_))

\* one lock acquisition of the state machine
Step(c, bks, now_) ==
    CASE c.pc = "match"            -> StepMatch(c, bks)
      [] c.pc = "insert"           -> StepInsert(c, bks, now_)
      [] c.pc = "resched_cancel"   -> StepReschedCancel(c, bks)
      [] c.pc = "resched_validate" -> [ctx |-> StepReschedValidate(c, bks), bks |-> bks]

\* an end of turn that refreshes last_activity and leaves expires_at alone
FinishMutantStaleExpiry(c, now_) ==
    [c EXCEPT !.conv.messages = Append(@, Message("assistant", c.reply)),
              !.conv.last_activity = now_,
              !.pc = "done"]

\* lines 358-385 and finish_conversation (466-492): push the reply, refresh the
\* timestamps; the caller saves the conversation
Finish(c, now_) ==
    [c EXCEPT !.conv.messages = Append(@, Message("assistant", c.reply)),
              !.conv.last_activity = now_,
              !.conv.expires_at = now_ + ExpiryMinutes,
              !.pc = "done"]

RECURSIVE RunToSave(_, _)
\* the state machine run without interleaving: every step sees the tables the
\* previous step left
RunToSave(r, now_) ==
    IF r.ctx.pc = "save" THEN r ELSE RunToSave(Step(r.ctx, r.bks, now_), now_)

\* the end of the call: the reply pushed, the conversation saved
Saved(r, cs, now_) ==
    [ctx |-> Finish(r.ctx, now_), bks |-> r.bks,
     cs |-> save_conversation(cs, r.ctx.phone, Finish(r.ctx, now_).conv)]

\* the owner's message as stored in the history
OwnerText == Reply("owner", <<>>, 0)

\* the conversation inject_owner_reply saves when it always starts a new one
inject_owner_replyMutantAlwaysNew(cs, phone, now_) ==
    save_conversation(cs, phone,
        [new_conversation(now_) EXCEPT !.messages = <<Message("assistant", OwnerText)>>])

\* inject_owner_reply(to_phone, message), lines 388-401
inject_owner_reply(cs, phone, now_) ==
    save_conversation(cs, phone,
        [UnwrapOr(get_conversation(cs, phone, now_), new_conversation(now_))
            EXCEPT !.messages = Append(@, Message("assistant", OwnerText)),
                   !.last_activity = now_,
                   !.expires_at = now_ + ExpiryMinutes])

\* process_message(from_phone, message) with extract_intent returning ex
process_message(phone, ex, bks, cs, avail, now_) ==
    Saved(RunToSave([ctx |-> StepLlm(StepLoadUser(StepLoadConv(NewCall(phone), cs, now_),
                                                  avail), ex),
                     bks |-> bks], now_),
          cs, now_)

\* the operations of a turn that may fail: the LLM call and the storage calls
Faults ==
    {"get_conversation", "llm", "get_bookings_in_range", "get_bookings_for_phone",
     "update_booking_status", "create_booking", "save_conversation"}

\* the call returns Err through `?`: nothing it holds is written
Failed(c) == [c EXCEPT !.pc = "error"]

\* a call that answers an LLM failure as it answers an unreadable response,
\* with the intent Unknown
StartedMutantLlmFallback(c, ex, cs, avail, now_) ==
    IF c.fault = "get_conversation" THEN Failed(c)
    ELSE IF c.fault = "llm" THEN StepLlm(StepLoadUser(StepLoadConv(c, cs, now_), avail), NoEx)
    ELSE StepLlm(StepLoadUser(StepLoadConv(c, cs, now_), avail), ex)

\* lines 20-79 of a call whose get_conversation or LLM call may fail
Started(c, ex, cs, avail, now_) ==
    IF c.fault = "get_conversation" THEN Failed(c)
    ELSE IF c.fault = "llm" THEN Failed(StepLoadUser(StepLoadConv(c, cs, now_), avail))
    ELSE StepLlm(StepLoadUser(StepLoadConv(c, cs, now_), avail), ex)

\* the storage call the step at c.pc makes is the one that fails (lines 223,
\* 260-266, 297, 304-308)
StepFails(c, bks) ==
    \/ /\ c.pc = "match"
       /\ Arm(c.conv.state, c.ex.intent) \in {"Cancel", "Reschedule"}
       /\ c.fault = "get_bookings_for_phone"
    \/ /\ c.pc = "match"
       /\ Arm(c.conv.state, c.ex.intent) = "Cancel"
       /\ c.fault = "update_booking_status"
       /\ get_bookings_for_phone(bks, c.phone) # <<>>
    \/ c.pc = "resched_cancel" /\ c.fault = "update_booking_status"
    \/ c.pc = "insert" /\ c.fault = "create_booking"

\* one lock acquisition of a call whose storage calls may fail
FaultyStep(c, bks, now_) ==
    IF StepFails(c, bks) THEN [ctx |-> Failed(c), bks |-> bks] ELSE Step(c, bks, now_)

RECURSIVE RunToEnd(_, _)
\* the state machine run up to the save of the conversation or to the error
RunToEnd(r, now_) ==
    IF r.ctx.pc \in {"save", "error"} THEN r
    ELSE RunToEnd(FaultyStep(r.ctx, r.bks, now_), now_)

\* the end of a call that may fail: an error leaves the conversations table
\* alone, also the error of save_conversation itself (lines 380-383, 488-490)
Ended(r, cs, now_) ==
    IF r.ctx.pc = "error" \/ r.ctx.fault = "save_conversation"
    THEN [ctx |-> Failed(r.ctx), bks |-> r.bks, cs |-> cs]
    ELSE Saved(r, cs, now_)

\* process_message in which the operation fault fails when it is reached
process_message_failing(phone, ex, bks, cs, avail, now_, fault) ==
    Ended(RunToEnd([ctx |-> Started([NewCall(phone) EXCEPT !.fault = fault],
                                    ex, cs, avail, now_),
                    bks |-> bks], now_),
          cs, now_)

(***************************************************************************)
(* Bounds and input sets.                                                  *)
(***************************************************************************)
MaxBookings == 2     \* rows the bookings table may hold
MaxMessages == 8     \* messages the conversations table may hold
NowStart == 480      \* the clock at start: Monday 08:00

Phones == {"p1", "p2"}

\* the gate after start-up on a fresh database: nobody blocked, no row in
\* rate_limits (others: the messages of numbers outside Phones in the current
\* hour window), paused = false
GateStart ==
    [blocked |-> [p \in Phones |-> "no"], count |-> [p \in Phones |-> 0],
     others |-> 0, paused |-> FALSE]

D0 == Some(<<DateWord(0)>>)         \* "2025-06-16", a Monday
D1 == Some(<<DateWord(1)>>)         \* "2025-06-17"
T0000 == Some(<<TimeWord(0)>>)      \* "00:00"
T0900 == Some(<<TimeWord(540)>>)    \* "09:00"
T1000 == Some(<<TimeWord(600)>>)    \* "10:00"
T2330 == Some(<<TimeWord(1410)>>)   \* "23:30"
Vague == Some(<<OtherWord>>)        \* text chrono does not parse, "tomorrow"

Extraction(i, n, d, t, dur, notes) ==
    [intent |-> i, customer_name |-> n, requested_date |-> d,
     requested_time |-> t, duration_minutes |-> dur, notes |-> notes]

\* what extract_intent may return in the specification Spec: complete booking
\* requests (two of them around midnight, one with a date chrono cannot
\* parse, one with a duration and notes), confirmations, refusals,
\* cancellations, reschedule requests, questions, and a message of unknown
\* intent that mentions a time
Extractions ==
    { Extraction("Book", Some("Alice"), D0, t, None, None) : t \in {T0900, T1000, T2330} }
    \cup { Extraction("Book", Some("Alice"), D1, T0000, None, None),
           Extraction("Book", Some("Alice"), Vague, T0900, None, None),
           Extraction("Book", Some("Bob"), D0, T0900, Some(30), Some("note")),
           Extraction("Confirm", None, None, None, None, None),
           Extraction("Cancel", None, None, None, None, None),
           Extraction("Reschedule", None, None, None, None, None),
           Extraction("Reschedule", None, D0, T1000, None, None),
           Extraction("Decline", None, None, None, None, None),
           Extraction("GeneralQuestion", None, None, None, None, None),
           Extraction("Unknown", None, None, T1000, None, None) }

\* Mon 09:00-10:00, legacy slots
AvailMonShort ==
    MkAvail(<<Slot("mon", HM(9, 0), HM(10, 0))>>, {}, None, None, None, None, <<>>)

AvailChoices == {Some(AvailMonShort)}

(***************************************************************************)
(* The system, one message at a time.                                      *)
(***************************************************************************)
\* no process_message call in flight
NoTurns == <<>>

Last(op, c) ==
    [op |-> op, phone |-> c.phone, ex |-> c.ex, prev |-> c.prev, reply |-> c.reply,
     v |-> c.v, created |-> c.created, cancelled |-> c.cancelled,
     fault |-> c.fault, stale |-> c.stale]

\* the last record of an operation that is not a conversation turn
LastOther(op) == Last(op, NewCall(""))

Init ==
    /\ bookings = <<>>
    /\ convs = [p \in Phones |-> None]
    /\ availability = None
    /\ now = NowStart
    /\ gate = GateStart
    /\ turns = NoTurns
    /\ last = LastOther("init")

\* the messages held by the conversations table
StoredMessages ==
    LET n(p) == IF IsSome(convs[p]) THEN Len(Unwrap(convs[p]).messages) ELSE 0
    IN  n("p1") + n("p2")

\* an inbound message handled start to end with no other operation in between
ProcessMessage(p, ex) ==
    /\ StoredMessages + 2 <= MaxMessages
    /\ \E r \in {process_message(p, ex, bookings, convs, availability, now)} :
           /\ Len(r.bks) <= MaxBookings
           /\ bookings' = r.bks
           /\ convs' = r.cs
           /\ last' = Last("turn", r.ctx)
    /\ UNCHANGED <<availability, now, gate, turns>>

\* POST /api/admin/bookings/:id/cancel (handlers/admin.rs)
CancelBooking(id) ==
    /\ id \in 1..Len(bookings)
    /\ bookings' = update_booking_status(bookings, id, "cancelled")
    /\ last' = LastOther("cancel_booking")
    /\ UNCHANGED <<convs, availability, now, gate, turns>>

\* POST /api/admin/settings with an availability (handlers/admin.rs)
UpdateSettings(a) ==
    /\ availability' = a
    /\ last' = LastOther("update_settings")
    /\ UNCHANGED <<bookings, convs, now, gate, turns>>

Next ==
    \/ \E p \in Phones, ex \in Extractions : ProcessMessage(p, ex)
    \/ \E id \in 1..MaxBookings : CancelBooking(id)
    \/ \E a \in AvailChoices : UpdateSettings(a)

Spec == Init /\ [][Next]_vars

(***************************************************************************)
(* The system with overlapping process_message calls.  The handler is an   *)
(* async function on a multi-threaded runtime; the database mutex is taken *)
(* for one query block at a time and released before the next await, so    *)
(* the calls interleave between their lock acquisitions.  turns holds the  *)
(* calls in the order they started; a finished call stays with pc "done".  *)
(***************************************************************************)
MaxTurns == 3        \* process_message calls started in a behaviour

\* what extract_intent may return in the specification SpecConc
ExtractionsConc ==
    { Extraction("Book", Some("Alice"), D0, T0900, None, None),
      Extraction("Confirm", None, None, None, None, None),
      Extraction("Reschedule", None, D0, T1000, None, None) }

\* the call t moves on to the context c
Advance(t, c) == turns' = [turns EXCEPT ![t] = c]

\* the call t is at step pc
AtPc(t, pc) == t \in 1..Len(turns) /\ turns[t].pc = pc

\* an inbound message arrives: the handler is entered
StartTurn(p) ==
    /\ Len(turns) < MaxTurns
    /\ turns' = Append(turns, NewCall(p))
    /\ UNCHANGED <<bookings, convs, availability, now, gate, last>>

\* lines 21-25
LoadConv(t) ==
    /\ AtPc(t, "load_conv")
    /\ Advance(t, StepLoadConv(turns[t], convs, now))
    /\ UNCHANGED <<bookings, convs, availability, now, gate, last>>

\* lines 28-47
LoadUser(t) ==
    /\ AtPc(t, "load_user")
    /\ Advance(t, StepLoadUser(turns[t], availability))
    /\ UNCHANGED <<bookings, convs, availability, now, gate, last>>

\* lines 72-79: the LLM call returns
Llm(t, ex) ==
    /\ AtPc(t, "llm")
    /\ Advance(t, StepLlm(turns[t], ex))
    /\ UNCHANGED <<bookings, convs, availability, now, gate, last>>

\* lines 89-356 up to the first release of the database lock
Match(t) ==
    /\ AtPc(t, "match")
    /\ \E r \in {StepMatch(turns[t], bookings)} :
           /\ Advance(t, r.ctx)
           /\ bookings' = r.bks
    /\ UNCHANGED <<convs, availability, now, gate, last>>

\* lines 209-243: the insert of the Confirm arm
Insert(t) ==
    /\ AtPc(t, "insert")
    /\ \E r \in {StepInsert(turns[t], bookings, now)} :
           /\ Advance(t, r.ctx)
           /\ bookings' = r.bks
    /\ UNCHANGED <<convs, availability, now, gate, last>>

\* lines 301-327: the cancellation of the Reschedule arm
ReschedCancel(t) ==
    /\ AtPc(t, "resched_cancel")
    /\ \E r \in {StepReschedCancel(turns[t], bookings)} :
           /\ Advance(t, r.ctx)
           /\ bookings' = r.bks
    /\ UNCHANGED <<convs, availability, now, gate, last>>

\* lines 328-336: the validation of the Reschedule arm
ReschedValidate(t) ==
    /\ AtPc(t, "resched_validate")
    /\ Advance(t, StepReschedValidate(turns[t], bookings))
    /\ UNCHANGED <<bookings, convs, availability, now, gate, last>>

\* lines 358-385 / finish_conversation: push the reply, save the conversation
Save(t) ==
    /\ AtPc(t, "save")
    /\ Advance(t, Finish(turns[t], now))
    /\ convs' = save_conversation(convs, turns[t].phone, Finish(turns[t], now).conv)
    /\ last' = Last("turn", Finish(turns[t], now))
    /\ UNCHANGED <<bookings, availability, now, gate>>

NextConc ==
    \/ \E p \in Phones : StartTurn(p)
    \/ \E t \in 1..MaxTurns : LoadConv(t)
    \/ \E t \in 1..MaxTurns : LoadUser(t)
    \/ \E t \in 1..MaxTurns, ex \in ExtractionsConc : Llm(t, ex)
    \/ \E t \in 1..MaxTurns : Match(t)
    \/ \E t \in 1..MaxTurns : Insert(t)
    \/ \E t \in 1..MaxTurns : ReschedCancel(t)
    \/ \E t \in 1..MaxTurns : ReschedValidate(t)
    \/ \E t \in 1..MaxTurns : Save(t)

SpecConc == Init /\ [][NextConc]_vars

(***************************************************************************)
(* Properties of the one-message-at-a-time system.                         *)
(***************************************************************************)
\* bookings rows i and j have overlapping windows [date_time, date_time + duration)
Overlap(i, j) ==
    /\ bookings[i].date_time < EndOf(bookings[j])
    /\ bookings[j].date_time < EndOf(bookings[i])

Live(i) == bookings[i].status # "cancelled"

\* the conversation row of the phone of the last turn
LastConv == Unwrap(convs[last.phone])

\* C1: with messages processed one at a time, no two stored bookings with a
\* status other than Cancelled have overlapping half-open windows.
C1_NoOverlap ==
    \A i, j \in 1..Len(bookings) :
        (i < j /\ Live(i) /\ Live(j)) => ~Overlap(i, j)

\* C2: every booking a turn inserts has a date_time and duration for which
\* validate_booking_time returned Ok in that turn, and the stored date_time is
\* the pending booking's requested date and time, never the clock.
C2_InsertedWasValidated ==
    (last.op = "turn" /\ last.created # 0) =>
        /\ last.v = "Ok"
        /\ IsSome(last.prev.pending_booking)
        /\ IsSome(Unwrap(last.prev.pending_booking).date_time)
        /\ ParseDateTime(Unwrap(Unwrap(last.prev.pending_booking).date_time))
               = Some(bookings[last.created].date_time)

\* candidate starts and durations for the validator
CandidateStarts == {At(0, 8, 0), At(0, 9, 0), At(0, 9, 30), At(0, 10, 0),
                    At(0, 23, 0), At(0, 23, 30), At(1, 0, 0), At(1, 0, 30)}
CandidateDurations == {30, 60}

\* some stored booking that is not Cancelled overlaps [dt, dt + duration)
OverlapsStored(dt, duration_minutes) ==
    \E i \in 1..Len(bookings) :
        /\ Live(i)
        /\ bookings[i].date_time < dt + duration_minutes
        /\ EndOf(bookings[i]) > dt

\* C4: for a candidate not rejected for business hours, validate_booking_time
\* returns Conflict exactly when some stored non-Cancelled booking overlaps
\* the candidate's half-open window, whatever day that booking starts on.
C4_ConflictIffOverlap ==
    \A dt \in CandidateStarts, d \in CandidateDurations :
        ~OutsideHours(dt, d, availability) =>
            ((validate_booking_time(bookings, dt, d, availability) = "Conflict")
                 <=> OverlapsStored(dt, d))

\* a step that is a completed process_message turn (every turn appends to the
\* history of its phone; the admin operations leave the conversations alone)
TurnStep == last'.op = "turn" /\ convs' # convs

\* the conversation row the turn of this step stored
ConvAfter == Unwrap(convs'[last'.phone])

\* the validator's verdict on the pending booking p against the bookings bks
\* and the availability in force, "Unparsed" when the text is no date and time
PendingVerdict(p, bks) ==
    IF IsSome(p.date_time)
    THEN ValidationOutcome(bks, Unwrap(p.date_time),
                           UnwrapOr(p.duration_minutes, DefaultDuration), availability)
    ELSE "Unparsed"

\* C5: a Cancel turn ends, from every prior state, in Idle with no pending
\* booking; when the phone has no non-Cancelled booking the reply is the fixed
\* "no upcoming bookings" message.
C5_CancelResets ==
    [][(TurnStep /\ last'.ex.intent = "Cancel") =>
          /\ ConvAfter.state = "Idle"
          /\ ConvAfter.pending_booking = None
          /\ (get_bookings_for_phone(bookings, last'.phone) = <<>>
                  => last'.reply = Reply("no_upcoming", <<>>, 0))]_vars

\* the turn of this step is a Confirm in Confirming whose pending time the
\* validator accepted
ConfirmAccepted ==
    /\ TurnStep
    /\ last'.prev.state = "Confirming"
    /\ last'.ex.intent = "Confirm"
    /\ last'.v = "Ok"

\* the row C6 expects for the pending booking p of phone
ExpectedRow(phone, p, id) ==
    [id |-> id, customer_phone |-> phone, customer_name |-> p.customer_name,
     date_time |-> Unwrap(ParseDateTime(Unwrap(p.date_time))),
     duration_minutes |-> IF IsSome(p.duration_minutes) THEN Unwrap(p.duration_minutes)
                          ELSE 60,
     status |-> "confirmed", notes |-> p.notes]

\* C6: a Confirm turn in Confirming whose pending time validates inserts
\* exactly one booking, Confirmed, with the sender's phone and the pending
\* name, time, duration (60 when none) and notes; the conversation ends Idle
\* with no pending booking and the reply carries /calendar/<new id>.ics.
C6_ConfirmInserts ==
    [][ConfirmAccepted =>
          /\ Len(bookings') = Len(bookings) + 1
          /\ SubSeq(bookings', 1, Len(bookings)) = bookings
          /\ bookings'[Len(bookings')] =
                 ExpectedRow(last'.phone, Unwrap(last'.prev.pending_booking),
                             bookings'[Len(bookings')].id)
          /\ \A i \in 1..Len(bookings) : bookings[i].id # bookings'[Len(bookings')].id
          /\ ConvAfter.state = "Idle"
          /\ ConvAfter.pending_booking = None
          /\ last'.reply.kind = "llm_ics"
          /\ last'.reply.id = bookings'[Len(bookings')].id]_vars

\* a Confirm turn has inserted a booking with the default duration after one
\* with a collected duration and notes
C6_Witness ==
    /\ last.op = "turn" /\ last.prev.state = "Confirming"
    /\ last.ex.intent = "Confirm" /\ last.v = "Ok" /\ last.created = 2
    /\ Unwrap(last.prev.pending_booking).duration_minutes = None
    /\ bookings[2].duration_minutes = 60
    /\ bookings[1].notes = Some("note") /\ bookings[1].duration_minutes = 30

\* C7: a Book turn ends in Confirming exactly when name, date and time are all
\* present and the validation of the combined date and time succeeds, and in
\* CollectingInfo otherwise; the pending booking becomes the fields of the
\* turn; no booking is created or cancelled.
C7_BookTransition ==
    [][(TurnStep /\ last'.ex.intent = "Book") =>
          /\ ConvAfter.state =
                 IF has_enough_info(last'.ex)
                    /\ PendingVerdict(BookPending(last'.ex), bookings) = "Ok"
                 THEN "Confirming" ELSE "CollectingInfo"
          /\ ConvAfter.pending_booking = Some(BookPending(last'.ex))
          /\ bookings' = bookings]_vars

\* the last message of the history the turn stored
LastMessage == LastConv.messages[Len(LastConv.messages)]

\* the last turn was a complete Book request that the validator rejected
BookRejected ==
    /\ last.op = "turn"
    /\ last.ex.intent = "Book"
    /\ has_enough_info(last.ex)
    /\ last.v \in Rejections

\* C8: a rejected Book turn answers with the validator's text, which is also
\* the message appended to the history: the fixed conflict message, or the
\* business-hours message with the readable hours ("Mon: 09:00-10:00" for
\* Mon 09:00-10:00 and a 60-minute request at 10:00 on a Monday).
C8_RejectionReply ==
    BookRejected =>
        /\ last.reply # LlmReply
        /\ LastMessage = Message("assistant", last.reply)
        /\ last.v = "Conflict" => last.reply = Reply("conflict", <<>>, 0)
        /\ last.v = "OutsideBusinessHours" =>
               /\ last.reply.kind = "hours"
               /\ IsSome(availability)
               /\ \A i \in 1..Len(effective_slots(Unwrap(availability))) :
                      \E j \in 1..Len(last.reply.hours) :
                          last.reply.hours[j] =
                              <<capitalize(effective_slots(Unwrap(availability))[i].day),
                                effective_slots(Unwrap(availability))[i].start,
                                effective_slots(Unwrap(availability))[i].end>>
        /\ (availability = Some(AvailMonShort)
            /\ last.ex.requested_date = D0 /\ last.ex.requested_time = T1000
            /\ last.ex.duration_minutes = None) =>
               /\ last.v = "OutsideBusinessHours"
               /\ \E j \in 1..Len(last.reply.hours) :
                      last.reply.hours[j] = <<"Mon", HM(9, 0), HM(10, 0)>>

\* a 60-minute request at Monday 10:00 was rejected for the hours Mon 09:00-10:00
C8_WitnessHours ==
    /\ BookRejected
    /\ last.v = "OutsideBusinessHours"
    /\ availability = Some(AvailMonShort)
    /\ last.ex.requested_date = D0 /\ last.ex.requested_time = T1000

\* C9: a Confirm turn in Confirming validates the pending time against the
\* bookings and availability of that moment: when a live booking overlaps it
\* or the hours do not allow it, no booking is created, the state becomes
\* CollectingInfo, the pending booking is kept and the reply is the rejection
\* text.
C9_ConfirmRevalidates ==
    [][(/\ TurnStep
        /\ last'.prev.state = "Confirming"
        /\ last'.ex.intent = "Confirm"
        /\ IsSome(last'.prev.pending_booking)
        /\ IsSome(Unwrap(last'.prev.pending_booking).date_time)
        /\ IsSome(ParseDateTime(Unwrap(Unwrap(last'.prev.pending_booking).date_time)))
        /\ \/ OverlapsStored(
                  Unwrap(ParseDateTime(Unwrap(Unwrap(last'.prev.pending_booking).date_time))),
                  UnwrapOr(Unwrap(last'.prev.pending_booking).duration_minutes, 60))
           \/ OutsideHours(
                  Unwrap(ParseDateTime(Unwrap(Unwrap(last'.prev.pending_booking).date_time))),
                  UnwrapOr(Unwrap(last'.prev.pending_booking).duration_minutes, 60),
                  availability))
       => /\ bookings' = bookings
          /\ ConvAfter.state = "CollectingInfo"
          /\ ConvAfter.pending_booking = last'.prev.pending_booking
          /\ last'.reply.kind \in {"hours", "conflict"}]_vars

\* the live bookings of a phone, as row numbers
LiveOf(phone) == {i \in 1..Len(bookings) : Live(i) /\ bookings[i].customer_phone = phone}

\* C10: a Reschedule turn, in any state, cancels the phone's earliest live
\* booking and ends in Confirming when a date and a time were extracted and
\* validation succeeds, in CollectingInfo otherwise; with no live booking it
\* ends Idle with no pending booking and changes no booking.
C10_Reschedule ==
    [][(TurnStep /\ last'.ex.intent = "Reschedule") =>
          IF LiveOf(last'.phone) # {}
          THEN /\ \E i \in LiveOf(last'.phone) :
                      /\ \A j \in LiveOf(last'.phone) :
                             bookings[i].date_time <= bookings[j].date_time
                      /\ bookings' = [bookings EXCEPT ![i].status = "cancelled"]
               /\ ConvAfter.state =
                      IF /\ IsSome(last'.ex.requested_date)
                         /\ IsSome(last'.ex.requested_time)
                         /\ PendingVerdict(Unwrap(ConvAfter.pending_booking), bookings') = "Ok"
                      THEN "Confirming" ELSE "CollectingInfo"
          ELSE /\ bookings' = bookings
               /\ ConvAfter.state = "Idle"
               /\ ConvAfter.pending_booking = None]_vars

(***************************************************************************)
(* Properties of the system with overlapping calls.                        *)
(***************************************************************************)
\* the calls that have inserted a booking
Inserters == {t \in 1..Len(turns) : turns[t].created # 0}

\* the conversation snapshot the finished call t loaded: its history without
\* the two messages of the call, its state and its pending booking
Snapshot(t) ==
    [messages |-> SubSeq(turns[t].conv.messages, 1, Len(turns[t].conv.messages) - 2),
     prev |-> turns[t].prev]

\* C3: calls that interleave between their lock acquisitions can both
\* validate overlapping windows as free and both insert: two live overlapping
\* bookings of one day exist only where the validation of the later row ran
\* before the earlier row was inserted (seen counts the rows in the table when
\* the validator ran), and such a state is reached (C3_DoubleBooking).
C3_OverlapOnlyByRace ==
    \A t1, t2 \in Inserters :
        (/\ turns[t1].created < turns[t2].created
         /\ Live(turns[t1].created) /\ Live(turns[t2].created)
         /\ Overlap(turns[t1].created, turns[t2].created)
         /\ turns[t2].v = "Ok"
         /\ DayOf(bookings[turns[t1].created].date_time)
                = DayOf(bookings[turns[t2].created].date_time))
        => turns[t2].seen < turns[t1].created

\* two calls from one phone loaded the same Confirming snapshot, both had the
\* validator accept the pending time against the same table, and both inserted
\* a Confirmed booking: the two rows overlap
C3_DoubleBooking ==
    \E t1, t2 \in Inserters :
        /\ t1 < t2
        /\ turns[t1].phone = turns[t2].phone
        /\ turns[t1].pc = "done" /\ turns[t2].pc = "done"
        /\ Snapshot(t1) = Snapshot(t2)
        /\ turns[t1].prev.state = "Confirming"
        /\ turns[t1].v = "Ok" /\ turns[t2].v = "Ok"
        /\ turns[t1].seen = turns[t2].seen
        /\ bookings[turns[t1].created].status = "confirmed"
        /\ bookings[turns[t2].created].status = "confirmed"
        /\ Overlap(turns[t1].created, turns[t2].created)

\* the turn of this step changed neither the state nor the pending booking nor
\* the bookings table, and answered with the LLM's message
TurnChangedNothing ==
    /\ ConvAfter.state = last'.prev.state
    /\ ConvAfter.pending_booking = last'.prev.pending_booking
    /\ bookings' = bookings
    /\ last'.created = 0 /\ last'.cancelled = 0
    /\ last'.reply = LlmReply

\* the extraction carries no field besides its intent
NoFields(ex) ==
    /\ ex.customer_name = None /\ ex.requested_date = None
    /\ ex.requested_time = None /\ ex.duration_minutes = None /\ ex.notes = None

DateHalf(text) == SelectSeq(text, LAMBDA w : w.k # "time")
TimeHalf(text) == SelectSeq(text, LAMBDA w : w.k = "time")

\* a collected half as an optional text
HalfOf(words) == IF words = <<>> THEN None ELSE Some(words)

\* the date and time text C12 expects after a turn that extracted ex on top of
\* the pending text prev (an optional text)
ExpectedDateTime(prev, ex) ==
    make_datetime_string(
        IF IsSome(ex.requested_date) THEN ex.requested_date
        ELSE IF IsSome(prev) THEN HalfOf(DateHalf(Unwrap(prev))) ELSE None,
        IF IsSome(ex.requested_time) THEN ex.requested_time
        ELSE IF IsSome(prev) THEN HalfOf(TimeHalf(Unwrap(prev))) ELSE None)

\* the turn of this step ran the CollectingInfo arm on a pending booking
CollectStep ==
    /\ TurnStep
    /\ last'.prev.state = "CollectingInfo"
    /\ last'.ex.intent # "Book"
    /\ IsSome(last'.prev.pending_booking)

\* C12: in CollectingInfo a null extracted field leaves the pending field
\* unchanged and a non-null one overwrites it; a turn supplying only a time
\* keeps the collected date and a turn supplying only a date keeps the
\* collected time, so the pending date and time text is the latest date
\* followed by the latest time, with at most one date and one time.
C12_MergeKeepsHalves ==
    [][CollectStep =>
          /\ IsSome(ConvAfter.pending_booking)
          /\ Unwrap(ConvAfter.pending_booking).customer_name =
                 OrElse(last'.ex.customer_name,
                        Unwrap(last'.prev.pending_booking).customer_name)
          /\ Unwrap(ConvAfter.pending_booking).duration_minutes =
                 OrElse(last'.ex.duration_minutes,
                        Unwrap(last'.prev.pending_booking).duration_minutes)
          /\ Unwrap(ConvAfter.pending_booking).notes =
                 OrElse(last'.ex.notes, Unwrap(last'.prev.pending_booking).notes)
          /\ Unwrap(ConvAfter.pending_booking).date_time =
                 ExpectedDateTime(Unwrap(last'.prev.pending_booking).date_time, last'.ex)
          /\ IsSome(Unwrap(ConvAfter.pending_booking).date_time) =>
                 /\ Len(TimeHalf(Unwrap(Unwrap(ConvAfter.pending_booking).date_time))) <= 1
                 /\ Len(DateHalf(Unwrap(Unwrap(ConvAfter.pending_booking).date_time))) <= 1]_vars

\* the validator rejected the pending time of the turn of this step
RejectedStep == TurnStep /\ last'.v \in Rejections

\* the name, duration and notes the pending booking held before the turn are
\* still in the stored pending booking, except where the turn supplied a value
CollectedFieldsKept ==
    IsSome(last'.prev.pending_booking) =>
        /\ IsSome(ConvAfter.pending_booking)
        /\ (last'.ex.customer_name = None
             /\ IsSome(Unwrap(last'.prev.pending_booking).customer_name)) =>
                Unwrap(ConvAfter.pending_booking).customer_name =
                    Unwrap(last'.prev.pending_booking).customer_name
        /\ (last'.ex.duration_minutes = None
             /\ IsSome(Unwrap(last'.prev.pending_booking).duration_minutes)) =>
                Unwrap(ConvAfter.pending_booking).duration_minutes =
                    Unwrap(last'.prev.pending_booking).duration_minutes
        /\ (last'.ex.notes = None
             /\ IsSome(Unwrap(last'.prev.pending_booking).notes)) =>
                Unwrap(ConvAfter.pending_booking).notes =
                    Unwrap(last'.prev.pending_booking).notes

\* C13 as stated: whenever validation rejects a time, in a Book,
\* CollectingInfo, Confirming/Confirm or Reschedule turn, the conversation ends
\* in CollectingInfo and every field collected in earlier turns (name,
\* duration, notes) that the turn did not supply is still in the pending booking.
C13_RejectionKeepsAllFields ==
    [][RejectedStep =>
          /\ ConvAfter.state = "CollectingInfo"
          /\ CollectedFieldsKept]_vars

\* C13: whenever validation rejects a time the conversation ends in
\* CollectingInfo; in a CollectingInfo or Confirming/Confirm turn every field
\* collected in earlier turns (name, duration, notes) that the turn did not
\* supply is still in the pending booking.
C13_RejectionKeepsFields ==
    [][RejectedStep =>
          /\ ConvAfter.state = "CollectingInfo"
          /\ Arm(last'.prev.state, last'.ex.intent) \in {"Collect", "Confirm"} =>
                 CollectedFieldsKept]_vars

\* a Confirm in CollectingInfo was rejected while the pending booking held a
\* name, a duration and notes collected earlier
C13_Witness ==
    /\ last.op = "turn"
    /\ last.v \in Rejections
    /\ last.prev.state = "CollectingInfo"
    /\ last.ex.intent = "Confirm"
    /\ IsSome(last.prev.pending_booking)
    /\ Unwrap(last.prev.pending_booking).notes = Some("note")
    /\ Unwrap(last.prev.pending_booking).duration_minutes = Some(30)
    /\ LastConv.pending_booking = last.prev.pending_booking

\* C14: a Decline turn in Confirming ends in CollectingInfo with the pending
\* booking unchanged, creates and cancels no booking, and replies with the
\* LLM's message.
C14_Decline ==
    [][(/\ TurnStep
        /\ last'.prev.state = "Confirming"
        /\ last'.ex.intent = "Decline") =>
          /\ ConvAfter.state = "CollectingInfo"
          /\ ConvAfter.pending_booking = last'.prev.pending_booking
          /\ bookings' = bookings
          /\ last'.created = 0 /\ last'.cancelled = 0
          /\ last'.reply = LlmReply
          /\ ConvAfter.messages[Len(ConvAfter.messages)] =
                 Message("assistant", LlmReply)]_vars

\* a proposed booking with a duration and notes was declined while another
\* booking was stored
C14_Witness ==
    /\ last.op = "turn"
    /\ last.prev.state = "Confirming"
    /\ last.ex.intent = "Decline"
    /\ LastConv.state = "CollectingInfo"
    /\ IsSome(LastConv.pending_booking)
    /\ Unwrap(LastConv.pending_booking).notes = Some("note")
    /\ \E i \in 1..Len(bookings) : Live(i)

(***************************************************************************)
(* The availability rules and the validator as functions of their inputs.  *)
(* SpecAvail starts from a stored Availability (any JSON from_json         *)
(* accepts) and a bookings table, and each action is one call of           *)
(* is_available, end_time_within_slot, effective_slots or                  *)
(* validate_booking_time, whose arguments and result it records in last.   *)
(* The four functions read their inputs and change nothing, so a call made *)
(* after another call reaches no state the first call could not reach: a   *)
(* behaviour is one call on the inputs it started from.                    *)
(***************************************************************************)
DateOverride(date, available, start, end) ==
    [date |-> date, available |-> available, start |-> start, end |-> end]

BreakWindow(start, end) == [start |-> start, end |-> end]

\* the legacy slot lists of the inputs: none, Monday 09:00-17:00 (written
\* "Mon"), a late Monday evening, and two adjacent Monday slots
SlotLists ==
    { <<>>,
      <<Slot("Mon", HM(9, 0), HM(17, 0))>>,
      <<Slot("mon", HM(22, 0), HM(23, 59))>>,
      <<Slot("mon", HM(9, 0), HM(12, 0)), Slot("mon", HM(12, 0), HM(17, 0))>> }

\* the override maps of the inputs, all for Monday 2025-06-16: none, closed,
\* open without hours, and open with hours (one window late in the evening,
\* one whose start is written "9:00")
OverrideMaps ==
    { {},
      {DateOverride(0, FALSE, None, None)},
      {DateOverride(0, TRUE, None, None)},
      {DateOverride(0, TRUE, Some(HM(11, 0)), Some(HM(15, 0)))},
      {DateOverride(0, TRUE, Some(HM(22, 0)), Some(HM(23, 59)))},
      {DateOverride(0, TRUE, Some(<<9, 10, 0, 0>>), Some(HM(17, 0)))} }

\* the break lists of the inputs
BreakLists ==
    { <<>>,
      <<BreakWindow(HM(12, 0), HM(13, 0))>>,
      <<BreakWindow(HM(23, 40), HM(23, 50))>> }

DayNames == {"mon", "tue", "wed", "thu", "fri", "sat", "sun"}

\* Availabilities without a day-range rule
LegacyAvails ==
    { MkAvail(sl, ov, None, None, None, None, br) :
          sl \in SlotLists, ov \in OverrideMaps, br \in BreakLists }

\* Availabilities with a complete day-range rule 09:00-17:00 next to a legacy
\* slot list; one of them written "Fri" to "Mon"
RangeAvails ==
    { MkAvail(<<Slot("tue", HM(10, 0), HM(11, 0))>>, {}, Some(df), Some(dt),
              Some(HM(9, 0)), Some(HM(17, 0)), <<>>) :
          df \in DayNames, dt \in DayNames }
    \cup { MkAvail(<<Slot("tue", HM(10, 0), HM(11, 0))>>, {}, Some("Fri"), Some("Mon"),
                   Some(HM(9, 0)), Some(HM(17, 0)), <<>>) }

\* a day-range rule with one field missing
PartialRangeAvails ==
    { MkAvail(<<Slot("tue", HM(10, 0), HM(11, 0))>>, {}, Some("fri"), Some("mon"),
              tf, tt, <<>>) :
          tf \in {None, Some(HM(9, 0))}, tt \in {None} }
    \cup { MkAvail(<<Slot("tue", HM(10, 0), HM(11, 0))>>, {}, None, Some("mon"),
                   Some(HM(9, 0)), Some(HM(17, 0)), <<>>) }

\* the user's availability column: NULL or one of the Availabilities
AvailInputs ==
    {None} \cup { Some(a) : a \in LegacyAvails \cup RangeAvails \cup PartialRangeAvails }

StoredBooking(id, dt, duration_minutes) ==
    [id |-> id, customer_phone |-> "p2", customer_name |-> Some("Bob"),
     date_time |-> dt, duration_minutes |-> duration_minutes,
     status |-> "confirmed", notes |-> None]

\* the bookings tables of the inputs: empty, or Monday 08:00-09:00 and
\* 10:00-11:00 taken
TableInputs ==
    { <<>>, <<StoredBooking(1, At(0, 8, 0), 60), StoredBooking(2, At(0, 10, 0), 60)>> }

\* the candidate start times: Monday 2025-06-16 from 08:00 to 23:30, and
\* Tuesday 10:00
CheckStarts ==
    { At(0, 8, 0), At(0, 9, 0), At(0, 10, 0), At(0, 11, 0), At(0, 11, 30),
      At(0, 12, 0), At(0, 12, 30), At(0, 13, 0), At(0, 14, 30), At(0, 16, 30),
      At(0, 17, 0), At(0, 22, 0), At(0, 23, 30), At(1, 10, 0) }

CheckDurations == {30, 60, 180}

Called(op, dt, duration_minutes, result) ==
    [op |-> op, dt |-> dt, duration |-> duration_minutes, result |-> result]

InitAvail ==
    /\ bookings \in TableInputs
    /\ convs = [p \in Phones |-> None]
    /\ availability \in AvailInputs
    /\ now = NowStart
    /\ gate = GateStart
    /\ turns = NoTurns
    /\ last = Called("init", 0, 0, FALSE)

IsAvailable(dt) ==
    /\ last.op = "init"
    /\ IsSome(availability)
    /\ \E r \in {is_available(Unwrap(availability), dt)} :
           last' = Called("is_available", dt, 0, r)
    /\ UNCHANGED <<bookings, convs, availability, now, gate, turns>>

EndTimeWithinSlot(dt, duration_minutes) ==
    /\ last.op = "init"
    /\ IsSome(availability)
    /\ \E r \in {end_time_within_slot(Unwrap(availability), dt, duration_minutes)} :
           last' = Called("end_time_within_slot", dt, duration_minutes, r)
    /\ UNCHANGED <<bookings, convs, availability, now, gate, turns>>

EffectiveSlots ==
    /\ last.op = "init"
    /\ IsSome(availability)
    /\ \E r \in {effective_slots(Unwrap(availability))} :
           last' = Called("effective_slots", 0, 0, r)
    /\ UNCHANGED <<bookings, convs, availability, now, gate, turns>>

ValidateBookingTime(dt, duration_minutes) ==
    /\ last.op = "init"
    /\ \E r \in {validate_booking_time(bookings, dt, duration_minutes, availability)} :
           last' = Called("validate_booking_time", dt, duration_minutes, r)
    /\ UNCHANGED <<bookings, convs, availability, now, gate, turns>>

NextAvail ==
    \/ \E dt \in CheckStarts : IsAvailable(dt)
    \/ \E dt \in CheckStarts, d \in CheckDurations : EndTimeWithinSlot(dt, d)
    \/ EffectiveSlots
    \/ \E dt \in CheckStarts, d \in CheckDurations : ValidateBookingTime(dt, d)

SpecAvail == InitAvail /\ [][NextAvail]_vars

\* the stored Availability has no effective slots
EmptySlots ==
    IsSome(availability) /\ effective_slots(Unwrap(availability)) = <<>>

\* C15 as stated: for an Availability whose effective slots are empty,
\* is_available returns true for every timestamp and end_time_within_slot
\* returns true for every timestamp and duration.
C15_EmptySlotsAlwaysTrue ==
    (last.op \in {"is_available", "end_time_within_slot"} /\ EmptySlots) =>
        last.result = TRUE

\* C15: for an Availability whose effective slots are empty,
\* validate_booking_time never answers OutsideBusinessHours, for every
\* timestamp and duration; is_available and end_time_within_slot themselves
\* return true for such an Availability only on a date whose override carries
\* hours.
C15_EmptySlotsNoHoursRejection ==
    /\ (last.op = "validate_booking_time" /\ EmptySlots) =>
           last.result # "OutsideBusinessHours"
    /\ (last.op \in {"is_available", "end_time_within_slot"} /\ EmptySlots
        /\ last.result = TRUE) =>
           HasHours(OverrideFor(Unwrap(availability), last.dt))

\* the validator accepted a time for which an Availability without effective
\* slots answers is_available with false
C15_Witness ==
    /\ last.op = "validate_booking_time"
    /\ EmptySlots
    /\ last.result = "Ok"
    /\ ~is_available(Unwrap(availability), last.dt)
    /\ Unwrap(availability).overrides = {}

\* C16: validate_booking_time returns OutsideBusinessHours exactly when an
\* Availability is supplied, its effective slots are non-empty, and
\* is_available(start) or end_time_within_slot(start, duration) is false; the
\* hours check comes first, so a candidate outside the hours that also
\* overlaps a stored booking is rejected as OutsideBusinessHours; with no
\* Availability or with empty effective slots there is no hours rejection.
C16_HoursRejection ==
    last.op = "validate_booking_time" =>
        /\ (last.result = "OutsideBusinessHours") <=>
               /\ IsSome(availability)
               /\ effective_slots(Unwrap(availability)) # <<>>
               /\ \/ ~is_available(Unwrap(availability), last.dt)
                  \/ ~end_time_within_slot(Unwrap(availability), last.dt, last.duration)
        /\ (availability = None \/ EmptySlots) =>
               last.result \in {"Ok", "Conflict"}

\* a candidate that starts inside the hours, ends after them and overlaps a
\* stored booking was rejected for the hours
C16_Witness ==
    /\ last.op = "validate_booking_time"
    /\ last.result = "OutsideBusinessHours"
    /\ OverlapsStored(last.dt, last.duration)
    /\ is_available(Unwrap(availability), last.dt)
    /\ ~end_time_within_slot(Unwrap(availability), last.dt, last.duration)

RECURSIVE DigitsValue(_)
\* str::parse::<u32> on a run of digits
DigitsValue(ds) ==
    IF ds = <<>> THEN 0
    ELSE DigitsValue(SubSeq(ds, 1, Len(ds) - 1)) * 10 + ds[Len(ds)]

\* the minute of the day a time text stands for: hour and minute as
\* parse_time reads them, s.split(':')
ClockMinutes(s) ==
    DigitsValue(SubSeq(s, 1, (CHOOSE i \in 1..Len(s) : s[i] = 10) - 1)) * 60
    + DigitsValue(SubSeq(s, (CHOOSE i \in 1..Len(s) : s[i] = 10) + 1, Len(s)))

\* the last call was is_available or end_time_within_slot
HoursCall == last.op \in {"is_available", "end_time_within_slot"}

\* the override of the date of the last call
LastOverride == OverrideFor(Unwrap(availability), last.dt)

\* the minute of the day lies in some break of the stored Availability
MinuteInBreak(t) ==
    \E i \in 1..Len(Unwrap(availability).breaks) :
        /\ ClockMinutes(Unwrap(availability).breaks[i].start) <= t
        /\ t < ClockMinutes(Unwrap(availability).breaks[i].end)

\* the result of the last call on the stored Availability without overrides
WithoutOverrides ==
    IF last.op = "is_available"
    THEN is_available([Unwrap(availability) EXCEPT !.overrides = {}], last.dt)
    ELSE end_time_within_slot([Unwrap(availability) EXCEPT !.overrides = {}],
                              last.dt, last.duration)

\* C17: on a date with an override: available=false makes is_available and
\* end_time_within_slot false whatever the weekly slots; available=true with
\* start and end ignores the weekly slots, is_available holds exactly when
\* start <= time < end outside every break, and end_time_within_slot requires
\* the whole appointment inside [start, end]; available=true without hours
\* gives the results the Availability has without the override.
C17_Overrides ==
    (HoursCall /\ IsSome(LastOverride)) =>
        /\ ~Unwrap(LastOverride).available => last.result = FALSE
        /\ (Unwrap(LastOverride).available /\ HasHours(LastOverride)
            /\ last.op = "is_available") =>
               (last.result <=>
                   /\ ClockMinutes(Unwrap(Unwrap(LastOverride).start)) <= MinuteOf(last.dt)
                   /\ MinuteOf(last.dt) < ClockMinutes(Unwrap(Unwrap(LastOverride).end))
                   /\ ~MinuteInBreak(MinuteOf(last.dt)))
        /\ (Unwrap(LastOverride).available /\ HasHours(LastOverride)
            /\ last.op = "end_time_within_slot" /\ last.result = TRUE) =>
               /\ ClockMinutes(Unwrap(Unwrap(LastOverride).start)) <= MinuteOf(last.dt)
               /\ MinuteOf(last.dt) + last.duration
                      <= ClockMinutes(Unwrap(Unwrap(LastOverride).end))
        /\ (Unwrap(LastOverride).available /\ ~HasHours(LastOverride)) =>
               last.result = WithoutOverrides

\* the windows that may hold an appointment starting at the last call's
\* time: the override's hours, or else the effective slots of its weekday
WindowsFor ==
    IF HasHours(LastOverride)
    THEN { [start |-> Unwrap(Unwrap(LastOverride).start),
            end |-> Unwrap(Unwrap(LastOverride).end)] }
    ELSE { [start |-> effective_slots(Unwrap(availability))[i].start,
            end |-> effective_slots(Unwrap(availability))[i].end] :
               i \in { j \in 1..Len(effective_slots(Unwrap(availability))) :
                          to_lowercase(effective_slots(Unwrap(availability))[j].day)
                              = WeekdayOf(last.dt) } }

\* C18: end_time_within_slot(start, duration) is true only if one single slot
\* of the start's weekday, or the date's override window, contains the whole
\* appointment: window.start <= start and start + duration <= window.end
\* measured on the day of the start, also when the end falls on the next day.
C18_WholeAppointmentInOneWindow ==
    (last.op = "end_time_within_slot" /\ last.result = TRUE) =>
        \E w \in WindowsFor :
            /\ ClockMinutes(w.start) <= MinuteOf(last.dt)
            /\ MinuteOf(last.dt) + last.duration <= ClockMinutes(w.end)

\* C19: is_available is false at every time inside a break, on every day and
\* on dates with override hours; end_time_within_slot is false whenever
\* [start, start + duration) intersects a break, also a break strictly inside
\* the appointment; an appointment that ends exactly at a break's start or
\* starts exactly at its end is not blocked by that break.
C19_Breaks ==
    HoursCall =>
        \A i \in 1..Len(Unwrap(availability).breaks) :
            /\ (last.op = "is_available"
                /\ ClockMinutes(Unwrap(availability).breaks[i].start) <= MinuteOf(last.dt)
                /\ MinuteOf(last.dt) < ClockMinutes(Unwrap(availability).breaks[i].end)) =>
                   last.result = FALSE
            /\ (last.op = "end_time_within_slot"
                /\ MinuteOf(last.dt) < ClockMinutes(Unwrap(availability).breaks[i].end)
                /\ MinuteOf(last.dt) + last.duration
                       > ClockMinutes(Unwrap(availability).breaks[i].start)) =>
                   last.result = FALSE
            /\ (last.op = "end_time_within_slot"
                /\ \/ MinuteOf(last.dt) + last.duration
                          = ClockMinutes(Unwrap(availability).breaks[i].start)
                   \/ MinuteOf(last.dt) = ClockMinutes(Unwrap(availability).breaks[i].end)) =>
                   ~overlaps_break([Unwrap(availability) EXCEPT
                                       !.breaks = <<Unwrap(availability).breaks[i]>>],
                                   FormatHM(last.dt), FormatHM(last.dt + last.duration))

\* the stored Availability carries all four fields of a day-range rule
CompleteRange ==
    /\ IsSome(Unwrap(availability).day_from) /\ IsSome(Unwrap(availability).day_to)
    /\ IsSome(Unwrap(availability).time_from) /\ IsSome(Unwrap(availability).time_to)

\* the place of a day name in the week, Monday 1 to Sunday 7
WeekPlace(day) == CHOOSE i \in 1..7 : DAY_ORDER[i] = to_lowercase(day)

\* the number of days from day_from through day_to, going round the week
RunLength ==
    ((WeekPlace(Unwrap(Unwrap(availability).day_to))
      - WeekPlace(Unwrap(Unwrap(availability).day_from)) + 7) % 7) + 1

\* the k-th day of the run that starts at day_from
RunDay(k) ==
    DAY_ORDER[((WeekPlace(Unwrap(Unwrap(availability).day_from)) + k - 2) % 7) + 1]

\* C20: with dayFrom, dayTo, timeFrom and timeTo set, effective_slots returns
\* exactly one slot per day of the cyclic run from dayFrom through dayTo, in
\* that order, each timeFrom-timeTo (Fri..Mon gives Fri, Sat, Sun, Mon; equal
\* days give one slot), and ignores the legacy slots; with any of the four
\* fields missing it returns the legacy slot list unchanged.
C20_DayRange ==
    last.op = "effective_slots" =>
        /\ CompleteRange =>
               /\ Len(last.result) = RunLength
               /\ \A k \in 1..Len(last.result) :
                      last.result[k] = Slot(RunDay(k),
                                            Unwrap(Unwrap(availability).time_from),
                                            Unwrap(Unwrap(availability).time_to))
        /\ (CompleteRange
            /\ to_lowercase(Unwrap(Unwrap(availability).day_from)) = "fri"
            /\ to_lowercase(Unwrap(Unwrap(availability).day_to)) = "mon") =>
               [k \in 1..Len(last.result) |-> last.result[k].day]
                   = <<"fri", "sat", "sun", "mon">>
        /\ (CompleteRange
            /\ Unwrap(availability).day_from = Unwrap(availability).day_to) =>
               Len(last.result) = 1
        /\ ~CompleteRange => last.result = Unwrap(availability).slots

\* the rule "Fri" to "Mon" 09:00-17:00 next to a legacy Tuesday slot was
\* expanded to four slots
C20_Witness ==
    /\ last.op = "effective_slots"
    /\ Unwrap(availability).day_from = Some("Fri")
    /\ Unwrap(availability).day_to = Some("Mon")
    /\ Unwrap(availability).slots # <<>>
    /\ Len(last.result) = 4
    /\ last.result[4] = Slot("mon", HM(9, 0), HM(17, 0))

(***************************************************************************)
(* The engine with failing operations.  SpecFault adds to the turns of     *)
(* Spec the turns in which the LLM call or one storage call returns Err.   *)
(***************************************************************************)
\* what extract_intent may return in SpecFault
ExtractionsFault ==
    { Extraction("Book", Some("Alice"), D0, T0900, None, None),
      Extraction("Confirm", None, None, None, None, None),
      Extraction("Cancel", None, None, None, None, None),
      Extraction("Reschedule", None, D0, T1000, None, None) }

\* an inbound message during whose handling the operation fault fails, if the
\* turn gets to it
FailingTurn(p, ex, fault) ==
    /\ StoredMessages + 2 <= MaxMessages
    /\ \E r \in {process_message_failing(p, ex, bookings, convs, availability, now,
                                         fault)} :
           /\ Len(r.bks) <= MaxBookings
           /\ bookings' = r.bks
           /\ convs' = r.cs
           /\ last' = Last(IF r.ctx.pc = "error" THEN "turn_error" ELSE "turn", r.ctx)
    /\ UNCHANGED <<availability, now, gate, turns>>

\* the customers of SpecFault
PhonesFault == {"p1"}

NextFault ==
    \/ \E p \in PhonesFault, ex \in ExtractionsFault : ProcessMessage(p, ex)
    \/ \E p \in PhonesFault, ex \in ExtractionsFault, f \in Faults :
           FailingTurn(p, ex, f)

SpecFault == Init /\ [][NextFault]_vars

\* C21: if the LLM call of a turn fails, process_message returns an error and
\* the stored conversation of the phone (messages, state, pending booking,
\* expiry) and all bookings are as they were before the turn; the user
\* message of the failed turn is not in the stored history.
C21_LlmFailure ==
    [][(last'.op \in {"turn", "turn_error"} /\ last'.fault = "llm") =>
          /\ last'.op = "turn_error"
          /\ convs' = convs
          /\ bookings' = bookings]_vars

\* the LLM call failed in a turn of a phone whose conversation is in
\* Confirming, with a booking stored
C21_Witness ==
    /\ last.op = "turn_error"
    /\ last.fault = "llm"
    /\ IsSome(convs[last.phone])
    /\ Unwrap(convs[last.phone]).state = "Confirming"
    /\ Len(bookings) >= 1

\* a storage operation of the turn of this step failed: the turn ended with
\* an error that is not the LLM's, or its get_bookings_in_range failed inside
\* the validation
StorageFailed ==
    \/ last'.op = "turn_error" /\ last'.fault # "llm"
    \/ /\ last'.op = "turn"
       /\ last'.fault = "get_bookings_in_range"
       /\ last'.v = "Conflict"

\* C22: if a storage operation fails during a turn (the booking lookup inside
\* the validation and the final save after an insertion or cancellation
\* included), the turn returns an error, the customer is not sent the
\* conflict rejection, and the stored conversation and all bookings are as
\* they were before the turn.
C22_StorageFailure ==
    [][StorageFailed =>
          /\ last'.op = "turn_error"
          /\ last'.reply.kind # "conflict"
          /\ convs' = convs
          /\ bookings' = bookings]_vars


(***************************************************************************)
(* C23: the life of a bookings row.  No statement of db/queries.rs deletes *)
(* from bookings; create_booking is called from conversation.rs:223 only,  *)
(* update_booking_status from conversation.rs:262, 304 and admin.rs:142,   *)
(* each with BookingStatus::Cancelled.                                     *)
(***************************************************************************)
RowKept(i) ==
    \/ bookings'[i] = bookings[i]
    \/ bookings'[i] = [bookings[i] EXCEPT !.status = "cancelled"]

\* C23: in every step (customer turn or admin cancellation) no booking row is
\* deleted, every row that existed keeps all its fields except that its status
\* may change to Cancelled, a Cancelled row stays Cancelled, and every row the
\* step inserts has status Confirmed
C23_BookingLifecycle ==
    [][/\ Len(bookings') >= Len(bookings)
       /\ \A i \in 1..Len(bookings) :
              /\ RowKept(i)
              /\ bookings[i].status = "cancelled" => bookings'[i].status = "cancelled"
       /\ \A i \in (Len(bookings) + 1)..Len(bookings') :
              bookings'[i].status = "confirmed"]_vars

\* an admin cancellation of an already cancelled row, next to a confirmed one
C23_Witness ==
    /\ last.op = "cancel_booking"
    /\ Len(bookings) = MaxBookings
    /\ \A i \in 1..Len(bookings) : bookings[i].status \in {"cancelled", "confirmed"}
    /\ \E i, j \in 1..Len(bookings) :
           bookings[i].status = "cancelled" /\ bookings[j].status = "confirmed"


(***************************************************************************)
(* The engine with extractions whose duration_minutes is an arbitrary i32: *)
(* ExtractedIntent.duration_minutes is Option<i32> and the LLM's JSON is   *)
(* deserialized into it unchecked.                                         *)
(***************************************************************************)
\* booking requests with a zero or negative duration (complete, and one without a
\* name that a later turn completes), a reschedule request with a zero
\* duration, a name, a confirmation
ExtractionsDuration ==
    { Extraction("Book", Some("Alice"), D0, T0900, Some(d), None) : d \in {0, -30, 30} }
    \cup { Extraction("Book", None, D0, T1000, Some(0), None),
           Extraction("Book", Some("Alice"), None, None, None, None),
           Extraction("Reschedule", None, D0, T1000, Some(0), None),
           Extraction("Confirm", None, None, None, None, None) }

NextDuration ==
    \/ \E p \in Phones, ex \in ExtractionsDuration : ProcessMessage(p, ex)
    \/ \E a \in AvailChoices : UpdateSettings(a)

SpecDuration == Init /\ [][NextDuration]_vars

\* C24: every stored booking has duration_minutes > 0, whatever duration the
\* extraction returned and whichever path put it into the pending booking
C24_PositiveDuration ==
    \A i \in 1..Len(bookings) : bookings[i].duration_minutes > 0


(***************************************************************************)
(* The engine while the clock advances.  Timestamps are stored as text     *)
(* with one-second precision; the model's clock counts whole minutes, and  *)
(* a stored timestamp is the minute it was written in.                     *)
(***************************************************************************)
MaxElapsed == 40        \* minutes the clock may advance past NowStart

\* a request without date and time (the conversation goes to CollectingInfo), a
\* complete request (Confirming), a confirmation, a question
ExtractionsTime ==
    { Extraction("Book", Some("Alice"), None, None, None, None),
      Extraction("Book", Some("Alice"), D0, T0900, None, None),
      Extraction("Confirm", None, None, None, None, None),
      Extraction("GeneralQuestion", None, None, None, None, None) }

\* steps of the clock: less than, and exactly, the life of a conversation
ClockSteps == {10, ExpiryMinutes}

\* Utc::now() between two requests
Tick(d) ==
    /\ now + d <= NowStart + MaxElapsed
    /\ now' = now + d
    /\ last' = LastOther("tick")
    /\ UNCHANGED <<bookings, convs, availability, gate, turns>>

\* POST /api/admin/inbox/reply (handlers/inbox.rs send_reply): the owner's text
\* is injected into the phone's conversation
InjectOwnerReply(p) ==
    /\ StoredMessages + 1 <= MaxMessages
    /\ convs' = inject_owner_reply(convs, p, now)
    /\ last' = [LastOther("inject_owner_reply") EXCEPT !.phone = p]
    /\ UNCHANGED <<bookings, availability, now, gate, turns>>

NextTime ==
    \/ \E p \in PhonesFault, ex \in ExtractionsTime : ProcessMessage(p, ex)
    \/ \E p \in Phones : InjectOwnerReply(p)
    \/ \E d \in ClockSteps : Tick(d)

SpecTime == Init /\ [][NextTime]_vars

\* the row of phone p that a lookup at the current time returns
Visible(p) == IsSome(convs[p]) /\ Unwrap(convs[p]).expires_at > now

\* the history a request for phone p loads
LoadedHistory(p) == IF Visible(p) THEN Unwrap(convs[p]).messages ELSE <<>>

\* C25: every turn that returns a reply stores the conversation with the user's
\* message and then the returned reply appended to the loaded history, and
\* with expires_at = last_activity + 30 minutes
C25_TwoMessagesAndExpiry ==
    [][last'.op = "turn" =>
          /\ IsSome(convs'[last'.phone])
          /\ Unwrap(convs'[last'.phone]).messages =
                 LoadedHistory(last'.phone)
                     \o <<Message("user", UserText), Message("assistant", last'.reply)>>
          /\ Unwrap(convs'[last'.phone]).expires_at =
                 Unwrap(convs'[last'.phone]).last_activity + ExpiryMinutes]_vars

\* a turn that ended early on a rejection, on top of a history loaded some
\* minutes after it was stored
C25_Witness ==
    /\ last.op = "turn"
    /\ last.reply.kind \notin {"llm", "llm_ics"}
    /\ now > NowStart
    /\ Len(Unwrap(convs[last.phone]).messages) >= 4
    /\ Unwrap(convs[last.phone]).last_activity = now

\* C26: inject_owner_reply changes no booking and no other phone's
\* conversation; for an unexpired conversation it appends one assistant message
\* with the owner's text and refreshes the expiry, state and pending booking
\* unchanged; for an unknown or expired phone it stores an Idle conversation
\* holding only that message (the operation has no extraction: the LLM is not
\* called)
C26_OwnerReply ==
    [][last'.op = "inject_owner_reply" =>
          /\ bookings' = bookings
          /\ \A q \in Phones \ {last'.phone} : convs'[q] = convs[q]
          /\ convs'[last'.phone] =
                 Some(IF Visible(last'.phone)
                      THEN [Unwrap(convs[last'.phone])
                               EXCEPT !.messages = Append(@, Message("assistant", OwnerText)),
                                      !.last_activity = now,
                                      !.expires_at = now + ExpiryMinutes]
                      ELSE [messages |-> <<Message("assistant", OwnerText)>>,
                            state |-> "Idle", pending_booking |-> None,
                            last_activity |-> now,
                            expires_at |-> now + ExpiryMinutes])]_vars

\* the owner's text injected into a conversation that waits for a confirmation
C26_Witness ==
    /\ last.op = "inject_owner_reply"
    /\ Unwrap(convs[last.phone]).state = "Confirming"
    /\ IsSome(Unwrap(convs[last.phone]).pending_booking)
    /\ Len(Unwrap(convs[last.phone]).messages) = 3
    /\ now > NowStart

\* the owner's text injected over an expired conversation
C26_WitnessExpired ==
    /\ last.op = "inject_owner_reply"
    /\ Len(Unwrap(convs[last.phone]).messages) = 1
    /\ now >= NowStart + ExpiryMinutes + 10

\* C27: a stored conversation whose expires_at is not later than the current
\* time is not loaded: the turn starts from Idle with no pending booking and an
\* empty history (a Confirm creates no booking), and the row it saves replaces
\* the stored one (the phone's row holds the two messages of this turn and
\* nothing of the old row)
C27_ExpiredIsFresh ==
    [][(/\ last'.op = "turn"
        /\ IsSome(convs[last'.phone])
        /\ Unwrap(convs[last'.phone]).expires_at <= now) =>
          /\ last'.prev = [state |-> "Idle", pending_booking |-> None]
          /\ Len(Unwrap(convs'[last'.phone]).messages) = 2
          /\ last'.ex.intent = "Confirm" => bookings' = bookings]_vars

\* a confirmation that arrived after the conversation waiting for it expired
C27_Witness ==
    /\ last.op = "turn"
    /\ last.stale = "Confirming"
    /\ last.ex.intent = "Confirm"
    /\ Len(Unwrap(convs[last.phone]).messages) = 2


(***************************************************************************)
(* The SMS webhook (handlers/webhook.rs) in front of the engine, within    *)
(* one hour window of rate_limits.  gate is                                *)
(*   [blocked : phone -> "no" | "auto" | "manual"   (blocked_numbers),     *)
(*    count   : phone -> message_count of the current window,              *)
(*    others  : the message_count sum of numbers outside Phones,           *)
(*    paused  : AppState.paused]                                           *)
(* The storage calls of the gate succeed.                                  *)
(***************************************************************************)
PER_CUSTOMER_LIMIT == 15
GLOBAL_LIMIT == 100

\* config.owner_phone
OwnerPhone == "p2"

is_blocked(g, phone) == g.blocked[phone] # "no"

\* INSERT INTO blocked_numbers ... ON CONFLICT(phone) DO UPDATE SET is_auto
block_number(g, phone, is_auto) ==
    [g EXCEPT !.blocked[phone] = IF is_auto THEN "auto" ELSE "manual"]

\* DELETE FROM blocked_numbers WHERE phone = ?1
unblock_number(g, phone) == [g EXCEPT !.blocked[phone] = "no"]

\* INSERT INTO rate_limits ... ON CONFLICT DO UPDATE SET message_count + 1
increment_message_count(g, phone) == [g EXCEPT !.count[phone] = @ + 1]

\* SELECT COALESCE(SUM(message_count), 0) ... WHERE window_start = ?1
get_global_message_count(g) == g.count["p1"] + g.count["p2"] + g.others

\* the Body of a request: cmd is its first word when the body starts with '#'
\* (lowercased), "text" otherwise; arg the number after "#block" / "#unblock"
Body(cmd, arg) == [cmd |-> cmd, arg |-> arg]
TextBody == Body("text", "")

\* what a request did: the gate and the tables after it, whether
\* process_message was called, the SMS sent to the sender, the alert pushed
\* to the owner's notification queue, the HTTP response
Outcome(g, bks, cs, engine, sms, alert, response) ==
    [gate |-> g, bks |-> bks, cs |-> cs, engine |-> engine, sms |-> sms,
     alert |-> alert, response |-> response]

\* return twiml_response() with nothing sent
Ignored(g, bks, cs, alert) == Outcome(g, bks, cs, FALSE, "none", alert, "twiml")

\* lines 203-249; the reply is sent to the owner
handle_admin_command(g, body) ==
    IF body.cmd = "#pause" THEN [g EXCEPT !.paused = TRUE]
    ELSE IF body.cmd = "#resume" THEN [g EXCEPT !.paused = FALSE]
    ELSE IF body.cmd = "#block" /\ body.arg \in Phones THEN block_number(g, body.arg, FALSE)
    ELSE IF body.cmd = "#unblock" /\ body.arg \in Phones THEN unblock_number(g, body.arg)
    ELSE g

\* step 7: r is what process_message did
Engine(g, r) ==
    Outcome(g, r.bks, r.cs, TRUE, IF r.ctx.pc = "error" THEN "fallback" ELSE "reply",
            "none", "twiml")

\* a limit that lets one more message through
OverCustomerLimitMutantLate(message_count) == message_count > PER_CUSTOMER_LIMIT + 1

\* step 3: message_count > PER_CUSTOMER_LIMIT
OverCustomerLimit(message_count) == message_count > PER_CUSTOMER_LIMIT

\* a gate that never sees the paused flag
AgentPausedMutantNever(g) == FALSE

\* step 5: state.paused.load()
AgentPaused(g) == g.paused

\* a gate that takes a '#' message from any sender as a command
IsAdminCommandMutantAnySender(from, body) == body.cmd # "text"

\* step 6: from == state.config.owner_phone && body.starts_with('#')
IsAdminCommand(from, body) == from = OwnerPhone /\ body.cmd # "text"

\* steps 3-7 with the counter already incremented
Counted(g, bks, cs, avail, now_, from, body, ex, fault) ==
    IF OverCustomerLimit(g.count[from])
    THEN Ignored(block_number(g, from, TRUE), bks, cs, "auto_blocked")
    ELSE IF get_global_message_count(g) > GLOBAL_LIMIT
    THEN Ignored([g EXCEPT !.paused = TRUE], bks, cs, "paused")
    ELSE IF AgentPaused(g) THEN Ignored(g, bks, cs, "none")
    ELSE IF IsAdminCommand(from, body)
    THEN Outcome(handle_admin_command(g, body), bks, cs, FALSE, "admin", "none", "twiml")
    ELSE Engine(g, process_message_failing(from, ex, bks, cs, avail, now_, fault))

\* sms_webhook, lines 58-200; signed: the request passes the signature check
sms_webhook(g, bks, cs, avail, now_, from, body, ex, fault, signed) ==
    IF ~signed THEN Outcome(g, bks, cs, FALSE, "none", "none", "forbidden")
    ELSE IF is_blocked(g, from) THEN Ignored(g, bks, cs, "none")
    ELSE Counted(increment_message_count(g, from), bks, cs, avail, now_, from, body, ex,
                 fault)

StartCount == 13        \* message_count of each phone's row at the start
MaxCount == 17          \* message_count a row may reach
MaxHistory == 4         \* messages a stored conversation may hold

\* the gate at the start: each phone has sent StartCount messages in this hour
\* (texts to a paused agent, which was then resumed), other numbers none or so
\* many that the global count is two below GLOBAL_LIMIT
GateStarts ==
    { [GateStart EXCEPT !.count = [p \in Phones |-> StartCount], !.others = o] :
          o \in {0, GLOBAL_LIMIT - 2 * StartCount - 2} }

InitHook ==
    /\ bookings = <<>>
    /\ convs = [p \in Phones |-> None]
    /\ availability = None
    /\ now = NowStart
    /\ gate \in GateStarts
    /\ turns = NoTurns
    /\ last = LastOther("init")

HookInput(body, ex, fault, signed) ==
    [body |-> body, ex |-> ex, fault |-> fault, signed |-> signed]

\* requests: texts (a booking request, anything else, one the LLM call fails
\* on), commands, and a command in a request without a valid signature
HookInputs ==
    { HookInput(TextBody, Extraction("Book", Some("Alice"), D0, T0900, None, None),
                "none", TRUE),
      HookInput(TextBody, NoEx, "none", TRUE),
      HookInput(TextBody, NoEx, "llm", TRUE),
      HookInput(Body("#unblock", "p1"), NoEx, "none", TRUE),
      HookInput(Body("#resume", ""), NoEx, "none", FALSE) }
    \cup { HookInput(Body(c, ""), NoEx, "none", TRUE) : c \in {"#pause", "#resume", "#status"} }

HookLast(from, body, r) ==
    [op |-> "sms_webhook", phone |-> from, body |-> body, engine |-> r.engine,
     sms |-> r.sms, alert |-> r.alert, response |-> r.response]

\* POST /webhook/sms
SmsWebhook(from, in) ==
    /\ gate.count[from] < MaxCount
    /\ \E r \in {sms_webhook(gate, bookings, convs, availability, now, from, in.body,
                             in.ex, in.fault, in.signed)} :
           /\ Len(r.bks) <= MaxBookings
           /\ \A p \in Phones :
                  IsSome(r.cs[p]) => Len(Unwrap(r.cs[p]).messages) <= MaxHistory
           /\ gate' = r.gate
           /\ bookings' = r.bks
           /\ convs' = r.cs
           /\ last' = HookLast(from, in.body, r)
    /\ UNCHANGED <<availability, now, turns>>

\* POST /api/admin/unblock (handlers/admin.rs)
AdminUnblock(p) ==
    /\ is_blocked(gate, p)
    /\ gate' = unblock_number(gate, p)
    /\ last' = [op |-> "admin_unblock", phone |-> p]
    /\ UNCHANGED <<bookings, convs, availability, now, turns>>

\* POST /api/admin/block
AdminBlock(p) ==
    /\ gate' = block_number(gate, p, FALSE)
    /\ last' = [op |-> "admin_block", phone |-> p]
    /\ UNCHANGED <<bookings, convs, availability, now, turns>>

\* POST /api/admin/pause and POST /api/admin/resume
AdminPause(flag) ==
    /\ gate' = [gate EXCEPT !.paused = flag]
    /\ last' = [op |-> "admin_pause", phone |-> ""]
    /\ UNCHANGED <<bookings, convs, availability, now, turns>>

NextHook ==
    \/ \E from \in Phones, in \in HookInputs : SmsWebhook(from, in)
    \/ \E p \in Phones : AdminUnblock(p)
    \/ \E p \in Phones : AdminBlock(p)
    \/ \E flag \in BOOLEAN : AdminPause(flag)

SpecHook == InitHook /\ [][NextHook]_vars

\* a request that passed the signature check
Received == last'.op = "sms_webhook" /\ last'.response # "forbidden"

\* the request changed neither a conversation nor a booking, did not call the
\* engine and sent the sender nothing
Silent ==
    /\ ~last'.engine
    /\ last'.sms = "none"
    /\ convs' = convs
    /\ bookings' = bookings

\* C28: the message that takes a phone's count of the current window above 15
\* puts the number on the block list marked automatic, is not passed to the
\* engine and gets no SMS reply; a message from a blocked number is ignored
\* and leaves the counter alone; a blocked number stays blocked until an
\* unblock (the admin endpoint or the owner's "#unblock")
C28_AutoBlock ==
    [][/\ (Received /\ ~is_blocked(gate, last'.phone)
                    /\ gate.count[last'.phone] + 1 > PER_CUSTOMER_LIMIT) =>
              /\ gate'.blocked[last'.phone] = "auto"
              /\ Silent
       /\ (Received /\ is_blocked(gate, last'.phone)) =>
              /\ gate' = gate
              /\ Silent
       /\ \A p \in Phones :
              (is_blocked(gate, p) /\ ~is_blocked(gate', p)) =>
                  \/ last'.op = "admin_unblock" /\ last'.phone = p
                  \/ /\ Received
                     /\ last'.phone = OwnerPhone
                     /\ last'.body = Body("#unblock", p)]_vars

\* the message after the one that crossed the limit
C28_Witness ==
    /\ last.op = "sms_webhook"
    /\ last.response = "twiml"
    /\ last.phone = "p1"
    /\ gate.blocked["p1"] = "auto"
    /\ gate.count["p1"] = PER_CUSTOMER_LIMIT + 1
    /\ ~last.engine
    /\ last.alert = "none"
    /\ IsSome(convs["p1"])

\* C29: an owner SMS "#resume" received by the webhook leaves the agent
\* unpaused, whatever the paused flag was
C29_OwnerResume ==
    [][(Received /\ last'.phone = OwnerPhone /\ last'.body.cmd = "#resume") =>
           ~gate'.paused]_vars

\* C30: while paused, a message from a customer number that is not blocked is
\* not passed to the engine, changes no conversation and no booking, gets no
\* SMS reply, and the webhook answers with the empty TwiML response
C30_PausedSilent ==
    [][(/\ last'.op = "sms_webhook"
        /\ last'.response # "forbidden"
        /\ last'.phone # OwnerPhone
        /\ gate.paused
        /\ ~is_blocked(gate, last'.phone)) =>
           /\ Silent
           /\ last'.response = "twiml"]_vars

\* a booking request from a customer with a pending confirmation, received
\* while the agent is paused
C30_Witness ==
    /\ last.op = "sms_webhook"
    /\ last.response = "twiml"
    /\ last.phone = "p1"
    /\ last.body = TextBody
    /\ gate.paused
    /\ gate.blocked["p1"] = "no"
    /\ last.alert = "none"
    /\ IsSome(convs["p1"])
    /\ Unwrap(convs["p1"]).state = "Confirming"


(***************************************************************************)
(* C31: '#' messages of numbers other than the owner's.                    *)
(***************************************************************************)
\* a received message starting with '#' whose sender is not the owner
ForeignHash == Received /\ last'.phone # OwnerPhone /\ last'.body.cmd # "text"

\* the message is stopped by none of the steps before the command check: the
\* sender is not blocked, neither limit is exceeded with this message, the
\* agent is not paused
PassesGate(from) ==
    /\ ~is_blocked(gate, from)
    /\ gate.count[from] + 1 <= PER_CUSTOMER_LIMIT
    /\ get_global_message_count(gate) + 1 <= GLOBAL_LIMIT
    /\ ~gate.paused

\* C31 as stated: a '#' message from a number other than the owner's never
\* changes the paused flag or the block list, is processed by the engine, and
\* the reply is sent to the sender
C31_ForeignHashAlwaysProcessed ==
    [][ForeignHash =>
           /\ gate'.paused = gate.paused
           /\ gate'.blocked = gate.blocked
           /\ last'.engine
           /\ last'.sms \in {"reply", "fallback"}]_vars

\* C31 amended: a '#' message from a number other than the owner's is never
\* handled as a command: the paused flag and the block list change only as
\* they do for any message (the rate limits of steps 3 and 4), and when the
\* message passes the blocked, rate-limit and paused checks it is processed by
\* the engine and the reply is sent to the sender
C31_ForeignHashIsCustomerMessage ==
    [][ForeignHash =>
           /\ last'.sms # "admin"
           /\ gate'.paused # gate.paused => last'.alert = "paused"
           /\ gate'.blocked # gate.blocked =>
                  /\ last'.alert = "auto_blocked"
                  /\ gate'.blocked = [gate.blocked EXCEPT ![last'.phone] = "auto"]
           /\ PassesGate(last'.phone) =>
                  /\ last'.engine
                  /\ last'.sms \in {"reply", "fallback"}
                  /\ gate' = increment_message_count(gate, last'.phone)]_vars

\* a customer's "#pause" answered by the engine, the agent still active
C31_Witness ==
    /\ last.op = "sms_webhook"
    /\ last.phone = "p1"
    /\ last.body = Body("#pause", "")
    /\ last.engine
    /\ last.sms = "reply"
    /\ ~gate.paused
    /\ IsSome(convs["p1"])


(***************************************************************************)
(* The engine over a bookings table filled in earlier sessions: the        *)
(* bookings are stored, the conversations that made them have expired.     *)
(***************************************************************************)
\* a row as create_booking_from_pending wrote it
BookedRow(id, phone, name, dt, duration_minutes, notes, status) ==
    [id |-> id, customer_phone |-> phone, customer_name |-> Some(name),
     date_time |-> dt, duration_minutes |-> duration_minutes,
     status |-> status, notes |-> notes]

\* tables: p1's two bookings made in either order; a cancelled and a live
\* booking of p1; a booking of each phone; a single booking with notes and a
\* duration of its own
BookedTables ==
    { <<BookedRow(1, "p1", "Alice", At(0, 10, 0), 60, None, "confirmed"),
        BookedRow(2, "p1", "Alice", At(0, 9, 0), 60, None, "confirmed")>>,
      <<BookedRow(1, "p1", "Alice", At(0, 9, 0), 60, None, "confirmed"),
        BookedRow(2, "p1", "Alice", At(0, 23, 30), 30, Some("note"), "confirmed")>>,
      <<BookedRow(1, "p1", "Alice", At(0, 9, 0), 60, None, "cancelled"),
        BookedRow(2, "p1", "Alice", At(0, 10, 0), 60, None, "confirmed")>>,
      <<BookedRow(1, "p2", "Bob", At(0, 9, 0), 60, None, "confirmed"),
        BookedRow(2, "p1", "Alice", At(0, 10, 0), 60, None, "confirmed")>>,
      <<BookedRow(1, "p1", "Alice", At(0, 9, 0), 30, Some("note"), "confirmed")>> }

\* the conversation row of a session that ended an hour before NowStart
ExpiredRow ==
    [messages |-> <<Message("user", UserText), Message("assistant", LlmReply)>>,
     state |-> "Idle", pending_booking |-> None,
     last_activity |-> NowStart - 60, expires_at |-> NowStart - 60 + ExpiryMinutes]

InitBooked ==
    /\ bookings \in BookedTables
    /\ convs = [p \in Phones |-> Some(ExpiredRow)]
    /\ availability = None
    /\ now = NowStart
    /\ gate = GateStart
    /\ turns = NoTurns
    /\ last = LastOther("init")

\* cancellations, reschedule requests (bare, with a new time, with a new time,
\* name, duration and notes), a confirmation, a question
ExtractionsBooked ==
    { Extraction("Cancel", None, None, None, None, None),
      Extraction("Reschedule", None, None, None, None, None),
      Extraction("Reschedule", None, D1, T0000, None, None),
      Extraction("Reschedule", Some("Carol"), D1, T0000, Some(45), Some("new note")),
      Extraction("Confirm", None, None, None, None, None),
      Extraction("GeneralQuestion", None, None, None, None, None) }

NextBooked ==
    \/ \E p \in Phones, ex \in ExtractionsBooked : ProcessMessage(p, ex)
    \/ \E id \in 1..MaxBookings : CancelBooking(id)

SpecBooked == InitBooked /\ [][NextBooked]_vars

(***************************************************************************)
(* C32: what a Cancel turn does to the bookings table.                     *)
(***************************************************************************)
\* row i is a booking of the phone that is not Cancelled
LiveRowOf(i, phone) ==
    bookings[i].customer_phone = phone /\ bookings[i].status # "cancelled"

\* C32: a turn whose intent is Cancel changes at most one booking; a booking
\* it changes is the sender's non-Cancelled booking with the smallest
\* date_time and becomes Cancelled; every other row is unchanged
C32_CancelFrame ==
    [][(last'.op = "turn" /\ last'.ex.intent = "Cancel") =>
           /\ Len(bookings') = Len(bookings)
           /\ \A i, j \in 1..Len(bookings) :
                  (bookings'[i] # bookings[i] /\ bookings'[j] # bookings[j]) => i = j
           /\ \A i \in 1..Len(bookings) :
                  bookings'[i] # bookings[i] =>
                      /\ LiveRowOf(i, last'.phone)
                      /\ bookings'[i] = [bookings[i] EXCEPT !.status = "cancelled"]
                      /\ \A k \in 1..Len(bookings) :
                             LiveRowOf(k, last'.phone) =>
                                 bookings[i].date_time <= bookings[k].date_time]_vars

\* a Cancel that took the later-made, earlier-dated of the sender's two bookings
C32_Witness ==
    /\ last.op = "turn"
    /\ last.ex.intent = "Cancel"
    /\ last.cancelled = 2
    /\ last.prev.state = "Idle"
    /\ Len(bookings) = 2
    /\ bookings[2].status = "cancelled"
    /\ bookings[1].status = "confirmed"
    /\ bookings[1].customer_phone = last.phone
    /\ bookings[2].date_time < bookings[1].date_time

(***************************************************************************)
(* C34: the pending booking a Reschedule turn seeds.                       *)
(***************************************************************************)
\* the turn took the Reschedule arm and found the booking it cancelled
RescheduleFound ==
    /\ last'.op = "turn"
    /\ Arm(last'.prev.state, last'.ex.intent) = "Reschedule"
    /\ last'.cancelled # 0

\* the extracted value when there is one, else the old booking's
NewOrOld(extracted, old) == IF IsSome(extracted) THEN extracted ELSE old

\* C34: after a Reschedule turn that found a booking, name, duration and notes
\* of the pending booking are the extracted values where the turn extracted
\* one and the old booking's otherwise; date_time is made of the extracted
\* date and time only
C34_RescheduleSeed ==
    [][RescheduleFound =>
           /\ IsSome(Unwrap(convs'[last'.phone]).pending_booking)
           /\ Unwrap(Unwrap(convs'[last'.phone]).pending_booking) =
                  Pending(NewOrOld(last'.ex.customer_name,
                                   bookings[last'.cancelled].customer_name),
                          make_datetime_string(last'.ex.requested_date,
                                               last'.ex.requested_time),
                          NewOrOld(last'.ex.duration_minutes,
                                   Some(bookings[last'.cancelled].duration_minutes)),
                          NewOrOld(last'.ex.notes, bookings[last'.cancelled].notes))]_vars



(***************************************************************************)
(* C33: the (CollectingInfo, _) arm.                                       *)
(***************************************************************************)
\* the turn just handled found the conversation in CollectingInfo
FromCollecting == last.op = "turn" /\ last.prev.state = "CollectingInfo"

\* the turn supplied neither a date nor a time and is neither Confirm nor Book
SuppliesNothing ==
    /\ last.ex.requested_date = None
    /\ last.ex.requested_time = None
    /\ last.ex.intent \notin {"Confirm", "Book"}

\* C33: in CollectingInfo a turn that supplies neither date nor time and is
\* neither Confirm nor Book leaves the state CollectingInfo; when the
\* re-validation of the arm rejects, the state stays CollectingInfo and the
\* reply, stored as the last message, is the rejection text
C33_CollectingStays ==
    FromCollecting =>
        /\ SuppliesNothing => Unwrap(convs[last.phone]).state = "CollectingInfo"
        /\ (last.ex.intent # "Book" /\ last.v \in Rejections) =>
               /\ Unwrap(convs[last.phone]).state = "CollectingInfo"
               /\ last.reply = ErrorText(last.v, availability)
               /\ last.reply # LlmReply
               /\ Unwrap(convs[last.phone]).messages[Len(Unwrap(convs[last.phone]).messages)]
                      = Message("assistant", last.reply)

\* a question asked while the pending booking already has a name and a date-time
C33_Witness ==
    /\ FromCollecting
    /\ last.ex.intent = "GeneralQuestion"
    /\ IsSome(last.prev.pending_booking)
    /\ IsSome(Unwrap(last.prev.pending_booking).customer_name)
    /\ IsSome(Unwrap(last.prev.pending_booking).date_time)
    /\ Unwrap(convs[last.phone]).state = "CollectingInfo"

\* a Confirm in CollectingInfo whose re-validation found the slot taken
C33_WitnessRejected ==
    /\ FromCollecting
    /\ last.ex.intent = "Confirm"
    /\ last.v = "Conflict"
    /\ Unwrap(convs[last.phone]).state = "CollectingInfo"


(***************************************************************************)
(* C35: the stored history under concurrent turns.  process_message takes  *)
(* the database lock once to load the conversation (lines 20-25) and once  *)
(* more to save it (379-383); between the two the LLM call is awaited and  *)
(* other requests run.                                                     *)
(***************************************************************************)
\* sequence a is an initial part of sequence b
IsPrefix(a, b) == Len(a) <= Len(b) /\ SubSeq(b, 1, Len(a)) = a

\* C35: the stored history of an unexpired conversation is append-only: every
\* step keeps the messages already stored for a phone, in their order, at the
\* front of the phone's stored history
C35_AppendOnly ==
    [][\A p \in Phones :
           (IsSome(convs[p]) /\ Unwrap(convs[p]).expires_at > now) =>
               /\ IsSome(convs'[p])
               /\ IsPrefix(Unwrap(convs[p]).messages, Unwrap(convs'[p]).messages)]_vars


(***************************************************************************)
(* The state machine of one phone under every intent, with requests that   *)
(* carry only part of a booking, owner injections and changing hours.      *)
(***************************************************************************)
\* the extractions of Spec, and requests with a date only, a time only, and
\* nothing at all
ExtractionsStates ==
    Extractions
    \cup { Extraction("Book", Some("Alice"), D0, None, None, None),
           Extraction("Book", Some("Alice"), None, T0900, None, None),
           Extraction("Book", None, None, None, None, None),
           Extraction("Unknown", None, D0, None, None, None) }

NextStates ==
    \/ \E p \in PhonesFault, ex \in ExtractionsStates : ProcessMessage(p, ex)
    \/ \E p \in PhonesFault : InjectOwnerReply(p)
    \/ \E a \in AvailChoices : UpdateSettings(a)

SpecStates == Init /\ [][NextStates]_vars

\* C36: no stored conversation is in state Rescheduling or Cancelling
C36_NoDeadStates ==
    \A p \in Phones :
        IsSome(convs[p]) => Unwrap(convs[p]).state \in {"Idle", "CollectingInfo", "Confirming"}

\* a Reschedule from a phone without a booking, handled while a booking waited
\* for confirmation
C36_Witness ==
    /\ last.op = "turn"
    /\ last.ex.intent = "Reschedule"
    /\ last.prev.state = "Confirming"
    /\ last.cancelled = 0
    /\ Unwrap(convs[last.phone]).state = "Idle"

\* C37: a stored conversation is in Idle exactly when it has no pending booking
C37_IdleIffNoPending ==
    \A p \in Phones :
        IsSome(convs[p]) =>
            (Unwrap(convs[p]).state = "Idle" <=> Unwrap(convs[p]).pending_booking = None)

\* a Cancel that ended a conversation waiting for a confirmation
C37_Witness ==
    /\ last.op = "turn"
    /\ last.ex.intent = "Cancel"
    /\ last.prev.state = "Confirming"
    /\ IsSome(last.prev.pending_booking)
    /\ Unwrap(convs[last.phone]).state = "Idle"
    /\ Unwrap(convs[last.phone]).pending_booking = None

\* the conversation p has stored is in Confirming
InConfirming(p) == IsSome(convs[p]) /\ Unwrap(convs[p]).state = "Confirming"

\* the pending booking has a name and a date-time made of a date and a time
WellFormed(pending) ==
    /\ IsSome(pending)
    /\ IsSome(Unwrap(pending).customer_name)
    /\ IsSome(Unwrap(pending).date_time)
    /\ IsSome(ParseDateTime(Unwrap(Unwrap(pending).date_time)))

\* C38: a conversation stored in Confirming has a pending booking with a name
\* and a date-time of the form date + time, and the turn that entered
\* Confirming had validate_booking_time return Ok
C38_ConfirmingIsValidated ==
    \A p \in Phones :
        InConfirming(p) =>
            /\ WellFormed(Unwrap(convs[p]).pending_booking)
            /\ (last.op = "turn" /\ last.phone = p /\ last.prev.state # "Confirming") =>
                   last.v = "Ok"


(***************************************************************************)
(* C39: dates the owner blocked.                                           *)
(***************************************************************************)
\* C39: validate_booking_time never returns Ok for a start whose date has an
\* override with available = false, whatever the Availability (also one
\* without weekly slots and without a day-range rule)
C39_BlockedDateNeverOk ==
    (/\ last.op = "validate_booking_time"
     /\ IsSome(availability)
     /\ Blocks(OverrideFor(Unwrap(availability), last.dt))) =>
        last.result # "Ok"


(***************************************************************************)
(* C40: expired rows.  db/queries.rs defines expire_old_conversations      *)
(* (DELETE FROM conversations WHERE expires_at <= now), but no caller      *)
(* exists: main.rs starts no background task, and the handlers never call  *)
(* it.  The steps of the system are therefore those of SpecTime; the clock  *)
(* always goes on, requests come or do not.                                *)
(***************************************************************************)
\* phone p has a stored row that a lookup no longer returns
ExpiredRowOf(p) == IsSome(convs[p]) /\ Unwrap(convs[p]).expires_at <= now

\* the row as it looks d minutes later to a clock whose reading is held: an
\* unexpired row is d minutes older, an expired row is as expired as before
Aged(row, d) ==
    IF IsSome(row) /\ Unwrap(row).expires_at > now
    THEN Some([Unwrap(row) EXCEPT !.last_activity = @ - d, !.expires_at = @ - d])
    ELSE row

\* the clock goes on past NowStart + MaxElapsed.  The conversations code reads
\* a stored timestamp only to compare it with the clock, so past that point
\* the model holds the reading and moves the stored timestamps back instead
\* (last alternates to tell one tick from the next)
TickBeyond(d) ==
    /\ now + d > NowStart + MaxElapsed
    /\ convs' = [p \in Phones |-> Aged(convs[p], d)]
    /\ last' = LastOther(IF last.op = "tick" THEN "tock" ELSE "tick")
    /\ UNCHANGED <<bookings, availability, now, gate, turns>>

\* the clock advances
Clock == \E d \in ClockSteps : Tick(d) \/ TickBeyond(d)

NextTimeOn ==
    \/ NextTime
    \/ \E d \in ClockSteps : TickBeyond(d)

SpecTimeFair == Init /\ [][NextTimeOn]_vars /\ WF_vars(Clock)

\* C40: every expired conversation row eventually leaves the store, also for
\* a phone that never writes again
C40_ExpiredEventuallyDeleted ==
    \A p \in Phones : ExpiredRowOf(p) ~> ~ExpiredRowOf(p)

====
